---------------------------- MODULE Spec2Model ----------------------------
(***************************************************************************)
(* Voucher ledger and redemption engine of the CDC voucher repository.     *)
(*                                                                         *)
(* The repository holds several independent variants of the same system.   *)
(* Each variant is modelled as its own group of variables and actions and  *)
(* has its own specification:                                              *)
(*   Spec       cdc_classes.py       CDCSystem (object ledger)             *)
(* A specification leaves the variables of the other variants unchanged.   *)
(***************************************************************************)
EXTENDS Integers, Sequences, FiniteSets, TLC

(***************************************************************************)
(* Bounds of the model and shared data                                     *)
(***************************************************************************)

\* Tranche sizes of the source (50/20/30 and 30/12/15 vouchers) are divided
\* by ScaleDiv, rounding up, wherever vouchers are individual objects.
ScaleDiv == 50

\* The CDCSystem clock counts seconds; TicksPerDay of them make the calendar
\* date 0, and the clock stops at the first second of date 1.
TicksPerDay == 2
MaxNow == TicksPerDay

\* Most successful claim_vouchers calls and most redeem_vouchers calls the
\* CDCSystem model follows.
MaxClaims == 2
MaxRedeems == 2

\* Largest per-denomination count in a CDCSystem redemption request.
MaxReqCount == 2

Households == {"H1"}
Merchants == {"M1"}
Denoms == {2, 5, 10}

Scaled(n) == (n + ScaleDiv - 1) \div ScaleDiv

Rep(d, n) == [i \in 1..n |-> d]

RECURSIVE SumSeq(_)
SumSeq(s) == IF s = <<>> THEN 0 ELSE Head(s) + SumSeq(Tail(s))

RECURSIVE Flatten(_)
Flatten(ss) == IF ss = <<>> THEN <<>> ELSE Head(ss) \o Flatten(Tail(ss))

\* Partial maps {denomination: count} with counts in lo..hi.
DenomRequests(lo, hi) == UNION {[S -> lo..hi] : S \in (SUBSET Denoms) \ {{}}}

(***************************************************************************)
(* State                                                                   *)
(***************************************************************************)
VARIABLES
    \* cdc_classes.py, CDCSystem
    cdc_households,            \* CDCSystem.households: id -> Household
    cdc_merchants,             \* CDCSystem.merchants (ids)
    cdc_transactions,          \* CDCSystem.transactions: tx_id -> transaction
    household_balance_index,   \* CDCSystem.household_balance_index
    cdc_now,                   \* datetime.now(), in seconds
    cdc_ret,                   \* what the last claim or redeem call returned
    cdc_nclaims,               \* successful claim_vouchers calls so far
    cdc_nredeems,              \* successful redeem_vouchers calls so far
    \* new_data_structure.py / new_services.py, the global store
    ns_households,             \* store.households: id -> claimed_tranches
    ns_merchants,              \* store.merchants (ids)
    household_vouchers,        \* HouseholdIndex.household_vouchers
    voucher_map,               \* HouseholdIndex.voucher_map
    household_balances,        \* HouseholdIndex.household_balances
    ns_transactions,           \* store.transactions, one row per voucher
    ns_next_id,                \* the next unused voucher id
    ns_ret,                    \* what the last call returned
    \* server.py, the data dictionary
    srv_households,            \* data["households"]: id -> claimed_tranches
    srv_merchants,             \* data["merchants"] (ids)
    srv_vouchers,              \* data["vouchers"]: id -> denomination -> count
    srv_codes,                 \* data["redemption_codes"], in order of creation
    srv_ret,                   \* what the last request returned
    srv_now,                   \* datetime.now(), in hours
    srv_csv,                   \* the rows of the output/Redeem<K>.csv files
    \* services.py, the store
    sv_households,             \* store.households (ids)
    vouchers_by_household,     \* store.vouchers_by_household: id -> vouchers
    redeemed_voucher_ids,      \* store.redeemed_voucher_ids
    sv_rows,                   \* store.redemptions_by_hour / the hourly file
    sv_next_id,                \* the next unused voucher id
    sv_ntx,                    \* redeem calls so far
    sv_ret,                    \* what the last call returned
    \* data_structure2.py / services2.py, the store
    s2_households,             \* store.households: id -> tranche -> vouchers
    s2_redemptions,            \* store.redemptions_by_hour[hour_key]
    s2_file,                   \* the rows of data/Redeem<hour_key>.csv
    s2_tx,                     \* the Transaction object of the last redeem
    s2_last,                   \* the last call and how it ended
    \* app.py, InMemoryStore and the request threads of the Flask server
    app_households,            \* store.households: id -> balances, tranches
    app_merchants,             \* store.merchants (ids)
    app_transactions,          \* store.transactions: transaction_id -> record
    app_stats,                 \* store.stats
    app_now,                   \* datetime.now(), in seconds
    app_threads,               \* each request thread inside redeem_vouchers
    app_ncalls,                \* redeem_vouchers calls that passed the check
    app_hourly,                \* the rows of the Redeem<YYYYMMDDHH>.csv files
    \* Claim_voucher_logic.py, VoucherClaimService over its two JSON files
    vc_households_file,        \* data/households.json: data["households"]
    vc_transactions_file,      \* data/voucher_transactions.json: "claims"
    vc_threads,                \* each caller inside claim_vouchers
    vc_ncalls,                 \* claim_vouchers calls begun
    \* cdc_mobile_app2.py, one call of suggest_balanced_combo
    combo_target,              \* target_amount
    combo_available,           \* available_counts
    combo_pc,                  \* "input" before the call, "done" after it
    combo_result,              \* (best_combo, suggested_amount)
    \* redemption.py, compile_redemptions_by_hour
    red_files,                 \* output_dir: hour key -> the lines of Redeem<key>.csv
    red_threads,               \* each run of compile_redemptions_by_hour
    red_done,                  \* the inputs of the runs that have returned
    red_nruns                  \* runs started so far

cdcVars == <<cdc_households, cdc_merchants, cdc_transactions,
             household_balance_index, cdc_now, cdc_ret, cdc_nclaims,
             cdc_nredeems>>
nsVars == <<ns_households, ns_merchants, household_vouchers, voucher_map,
            household_balances, ns_transactions, ns_next_id, ns_ret>>
srvVars == <<srv_households, srv_merchants, srv_vouchers, srv_codes, srv_ret,
             srv_now, srv_csv>>
svVars == <<sv_households, vouchers_by_household, redeemed_voucher_ids, sv_rows,
            sv_next_id, sv_ntx, sv_ret>>
s2Vars == <<s2_households, s2_redemptions, s2_file, s2_tx, s2_last>>
appVars == <<app_households, app_merchants, app_transactions, app_stats, app_now,
             app_threads, app_ncalls, app_hourly>>
vcVars == <<vc_households_file, vc_transactions_file, vc_threads, vc_ncalls>>
comboVars == <<combo_target, combo_available, combo_pc, combo_result>>
redVars == <<red_files, red_threads, red_done, red_nruns>>

vars == <<cdcVars, nsVars, srvVars, svVars, s2Vars, appVars, vcVars,
          comboVars, redVars>>

\* What the actions of one variant leave alone.
CDCFrame == UNCHANGED <<nsVars, srvVars, svVars, s2Vars, appVars, vcVars,
                        comboVars, redVars>>
NSFrame == UNCHANGED <<cdcVars, srvVars, svVars, s2Vars, appVars, vcVars,
                       comboVars, redVars>>
SrvFrame == UNCHANGED <<cdcVars, nsVars, svVars, s2Vars, appVars, vcVars,
                        comboVars, redVars>>
SvFrame == UNCHANGED <<cdcVars, nsVars, srvVars, s2Vars, appVars, vcVars,
                       comboVars, redVars>>
S2Frame == UNCHANGED <<cdcVars, nsVars, srvVars, svVars, appVars, vcVars,
                       comboVars, redVars>>
AppFrame == UNCHANGED <<cdcVars, nsVars, srvVars, svVars, s2Vars, vcVars,
                        comboVars, redVars>>
VcFrame == UNCHANGED <<cdcVars, nsVars, srvVars, svVars, s2Vars, appVars,
                       comboVars, redVars>>
ComboFrame == UNCHANGED <<cdcVars, nsVars, srvVars, svVars, s2Vars, appVars,
                          vcVars, redVars>>
RedFrame == UNCHANGED <<cdcVars, nsVars, srvVars, svVars, s2Vars, appVars,
                        vcVars, comboVars>>

(***************************************************************************)
(* cdc_classes.py : Voucher, Household, CDCSystem                          *)
(***************************************************************************)
\* CDCSystem.tranche_config, scaled.  Python keeps the dict order 2, 5, 10.
CdcTranches == {"2025-05", "2026-01"}
CdcTrancheInputs == CdcTranches \cup {"2024-01"}
tranche_config ==
    [t \in CdcTranches |->
        IF t = "2025-05"
        THEN (2 :> Scaled(50)) @@ (5 :> Scaled(20)) @@ (10 :> Scaled(30))
        ELSE (2 :> Scaled(30)) @@ (5 :> Scaled(12)) @@ (10 :> Scaled(15))]

\* The calendar date of a tick.  Date 0 runs to 2025-12-31 included, date 1
\* to 2026-12-31 included, date 2 is any later day.
DateOf(now) == now \div TicksPerDay

\* Household.claim_vouchers, the expiry date of a tranche.
ExpiryDate(tranche) == IF tranche = "2025-05" THEN 0 ELSE 1

\* Voucher.use_voucher.  The redemption_date it also stores is read by no
\* operation and is left out of the voucher record.
use_voucher(v, redemption_date) == [v EXCEPT !.status = "used"]

\* Voucher.check_expiry without its test for a used voucher.
check_expiryIgnoringUsed(v, now) ==
    IF DateOf(now) > v.expiry_date THEN [v EXCEPT !.status = "expired"]
    ELSE v

\* Voucher.check_expiry: the status after the call.
check_expiry(v, now) ==
    IF v.status = "used" THEN v
    ELSE IF DateOf(now) > v.expiry_date THEN [v EXCEPT !.status = "expired"]
    ELSE v

\* Household.vouchers is a dict tranche -> list, kept here as the sequence of
\* its entries in insertion order.
TrancheLists(hh) == [i \in 1..Len(hh.vouchers) |-> hh.vouchers[i].list]
AllVouchers(hh) == Flatten(TrancheLists(hh))
TrancheKeys(hh) == {hh.vouchers[i].tranche : i \in 1..Len(hh.vouchers)}

\* Household.get_balance
Household_get_balance(hh) ==
    [d \in Denoms |->
        Cardinality({i \in 1..Len(AllVouchers(hh)) :
            /\ AllVouchers(hh)[i].status = "active"
            /\ AllVouchers(hh)[i].denomination = d})]

\* Household.get_total_balance
Household_get_total_balance(hh) ==
    LET b == Household_get_balance(hh) IN 2 * b[2] + 5 * b[5] + 10 * b[10]

\* The vouchers one Household.claim_vouchers call appends to a tranche list
\* of length len: one per unit of the allocation, numbered len+1, len+2, ...
MintedVouchers(hid, tranche, denominations, len) ==
    LET units == Rep(2, denominations[2]) \o Rep(5, denominations[5])
                 \o Rep(10, denominations[10])
    IN [i \in 1..Len(units) |->
          [voucher_code    |-> <<tranche, units[i], len + i>>,
           expiry_date     |-> ExpiryDate(tranche),
           denomination    |-> units[i],
           tranche         |-> tranche,
           status          |-> "active",
           household_id    |-> hid]]

\* Household.claim_vouchers
Household_claim_vouchers(hh, tranche, denominations) ==
    LET withKey == IF tranche \in TrancheKeys(hh) THEN hh.vouchers
                   ELSE Append(hh.vouchers, [tranche |-> tranche, list |-> <<>>])
        k == CHOOSE i \in 1..Len(withKey) : withKey[i].tranche = tranche
    IN [hh EXCEPT !.vouchers =
          [withKey EXCEPT ![k].list =
              @ \o MintedVouchers(hh.household_id, tranche, denominations, Len(@))]]

\* CDCSystem.register_household
CDC_register_household(h) ==
    /\ cdc_households' =
          (h :> [household_id |-> h, vouchers |-> <<>>]) @@ cdc_households
    /\ household_balance_index' = (h :> 0) @@ household_balance_index
    /\ UNCHANGED <<cdc_merchants, cdc_transactions, cdc_now, cdc_ret, cdc_nclaims,
                   cdc_nredeems>>
    /\ CDCFrame

\* CDCSystem.register_merchant
CDC_register_merchant(m) ==
    /\ cdc_merchants' = cdc_merchants \cup {m}
    /\ UNCHANGED <<cdc_households, cdc_transactions, household_balance_index,
                   cdc_now, cdc_ret, cdc_nclaims, cdc_nredeems>>
    /\ CDCFrame

\* CDCSystem.claim_vouchers
CDC_claim_vouchers(h, tranche) ==
    /\ cdc_nclaims < MaxClaims
    /\ IF h \notin DOMAIN cdc_households \/ tranche \notin DOMAIN tranche_config
       THEN /\ cdc_ret' = [op |-> "claim_vouchers", ok |-> FALSE, amount |-> 0]
            /\ UNCHANGED <<cdc_households, household_balance_index, cdc_nclaims>>
       ELSE LET hh == Household_claim_vouchers(cdc_households[h], tranche,
                                               tranche_config[tranche])
            IN /\ cdc_households' = [cdc_households EXCEPT ![h] = hh]
               /\ household_balance_index' =
                     [household_balance_index EXCEPT ![h] = Household_get_total_balance(hh)]
               /\ cdc_nclaims' = cdc_nclaims + 1
               /\ cdc_ret' = [op |-> "claim_vouchers", ok |-> TRUE, amount |-> 0]
    /\ UNCHANGED <<cdc_merchants, cdc_transactions, cdc_now, cdc_nredeems>>
    /\ CDCFrame

\* CDCSystem.redeem_vouchers, the inner loop over one tranche list: marks the
\* active vouchers of denomination denom from position i on, and breaks when
\* vouchers_found == count right after a mark.
RECURSIVE UseInList(_, _, _, _, _, _)
UseInList(list, i, denom, count, found, date) ==
    IF i > Len(list) THEN [list |-> list, found |-> found]
    ELSE IF list[i].status = "active" /\ list[i].denomination = denom
         THEN LET marked == [list EXCEPT ![i] = use_voucher(@, date)]
              IN IF found + 1 = count
                 THEN [list |-> marked, found |-> found + 1]
                 ELSE UseInList(marked, i + 1, denom, count, found + 1, date)
         ELSE UseInList(list, i + 1, denom, count, found, date)

\* The loop over household.vouchers.values() for one requested denomination:
\* after each tranche list, break when vouchers_found == count.
RECURSIVE UseInTranches(_, _, _, _, _, _)
UseInTranches(entries, k, denom, count, found, date) ==
    IF k > Len(entries) THEN entries
    ELSE LET r == UseInList(entries[k].list, 1, denom, count, found, date)
             e2 == [entries EXCEPT ![k].list = r.list]
         IN IF r.found = count THEN e2
            ELSE UseInTranches(e2, k + 1, denom, count, r.found, date)

\* The loop over denominations.items(); the request is taken in the order
\* 10, 5, 2 (vouchers of different denominations do not interact).
RECURSIVE UseRequested(_, _, _, _)
UseRequested(entries, order, denominations, date) ==
    IF order = <<>> THEN entries
    ELSE LET d == Head(order)
             e2 == IF d \in DOMAIN denominations
                   THEN UseInTranches(entries, 1, d, denominations[d], 0, date)
                   ELSE entries
         IN UseRequested(e2, Tail(order), denominations, date)

\* The vouchers a redemption marked: those active before and used after.
NewlyUsed(before, after) ==
    LET a == AllVouchers(after)
        b == AllVouchers(before)
    IN {i \in 1..Len(a) : b[i].status = "active" /\ a[i].status = "used"}

\* CDCSystem.redeem_vouchers
CDC_redeem_vouchers(h, m, denominations) ==
    /\ cdc_nredeems < MaxRedeems
    /\ IF h \notin DOMAIN cdc_households \/ m \notin cdc_merchants
       THEN /\ cdc_ret' = [op |-> "redeem_vouchers", ok |-> FALSE, amount |-> 0]
            /\ UNCHANGED <<cdc_households, cdc_transactions,
                           household_balance_index, cdc_nredeems>>
       ELSE LET household == cdc_households[h]
                available_balance == Household_get_balance(household)
            IN IF \E d \in DOMAIN denominations : available_balance[d] < denominations[d]
               THEN /\ cdc_ret' = [op |-> "redeem_vouchers", ok |-> FALSE, amount |-> 0]
                    /\ UNCHANGED <<cdc_households, cdc_transactions,
                                   household_balance_index, cdc_nredeems>>
               ELSE LET hh == [household EXCEPT !.vouchers =
                                  UseRequested(@, <<10, 5, 2>>, denominations, cdc_now)]
                        used == NewlyUsed(household, hh)
                        total_amount ==
                            SumSeq([i \in 1..Len(AllVouchers(hh)) |->
                                      IF i \in used THEN AllVouchers(hh)[i].denomination
                                      ELSE 0])
                        tx == [transaction_id |-> cdc_now,
                               household_id |-> h,
                               merchant_id |-> m,
                               transaction_datetime |-> cdc_now,
                               vouchers_used |->
                                   {AllVouchers(hh)[i].voucher_code : i \in used},
                               total_amount |-> total_amount]
                    IN /\ cdc_households' = [cdc_households EXCEPT ![h] = hh]
                       /\ cdc_transactions' = (cdc_now :> tx) @@ cdc_transactions
                       /\ household_balance_index' =
                             [household_balance_index EXCEPT
                                 ![h] = Household_get_total_balance(hh)]
                       /\ cdc_nredeems' = cdc_nredeems + 1
                       /\ cdc_ret' = [op |-> "redeem_vouchers", ok |-> TRUE, amount |-> total_amount]
    /\ UNCHANGED <<cdc_merchants, cdc_now, cdc_nclaims>>
    /\ CDCFrame

\* CDCSystem.refresh_vouchers_status
CDC_refresh_vouchers_status ==
    /\ cdc_households' =
          [h \in DOMAIN cdc_households |->
              [cdc_households[h] EXCEPT !.vouchers =
                  [i \in 1..Len(@) |->
                      [@[i] EXCEPT !.list =
                          [j \in 1..Len(@) |-> check_expiry(@[j], cdc_now)]]]]]
    /\ UNCHANGED <<cdc_merchants, cdc_transactions, household_balance_index,
                   cdc_now, cdc_ret, cdc_nclaims, cdc_nredeems>>
    /\ CDCFrame

\* The clock advances.
CDC_Tick ==
    /\ cdc_now < MaxNow
    /\ cdc_now' = cdc_now + 1
    /\ UNCHANGED <<cdc_households, cdc_merchants, cdc_transactions,
                   household_balance_index, cdc_ret, cdc_nclaims, cdc_nredeems>>
    /\ CDCFrame

CDCInit ==
    /\ cdc_households = <<>>
    /\ cdc_merchants = {}
    /\ cdc_transactions = <<>>
    /\ household_balance_index = <<>>
    /\ cdc_now = 0
    /\ cdc_ret = [op |-> "init", ok |-> TRUE, amount |-> 0]
    /\ cdc_nclaims = 0
    /\ cdc_nredeems = 0

CDCNext ==
    \/ \E h \in Households : CDC_register_household(h)
    \/ \E m \in Merchants : CDC_register_merchant(m)
    \/ \E h \in Households, t \in CdcTrancheInputs : CDC_claim_vouchers(h, t)
    \/ \E h \in Households, m \in Merchants, r \in DenomRequests(0, MaxReqCount) :
          CDC_redeem_vouchers(h, m, r)
    \/ CDC_refresh_vouchers_status
    \/ CDC_Tick

\* The same system serving two households.
CdcTwoHouseholds == {"H1", "H2"}
CDCTwoNext ==
    \/ \E h \in CdcTwoHouseholds : CDC_register_household(h)
    \/ \E m \in Merchants : CDC_register_merchant(m)
    \/ \E h \in CdcTwoHouseholds, t \in CdcTrancheInputs : CDC_claim_vouchers(h, t)
    \/ \E h \in CdcTwoHouseholds, m \in Merchants, r \in DenomRequests(0, MaxReqCount) :
          CDC_redeem_vouchers(h, m, r)

(***************************************************************************)
(* new_data_structure.py : HouseholdIndex;  new_services.py : services     *)
(***************************************************************************)

\* Largest amount asked of new_services.redeem_vouchers, and the most
\* successful claims and redemptions followed.
MaxNsAmount == 18
MaxNsClaims == 2
MaxNsRedeems == 2

NsTranches == {"May2025", "Jan2026"}
NsTrancheInputs == NsTranches \cup {"Dec2024"}
NsMethods == {"optimal", "specific"}

\* VoucherAllocation.get_may2025_allocation / get_jan2026_allocation, scaled
VoucherAllocation(tranche) ==
    IF tranche = "May2025"
    THEN (2 :> Scaled(50)) @@ (5 :> Scaled(20)) @@ (10 :> Scaled(30))
    ELSE (2 :> Scaled(30)) @@ (5 :> Scaled(12)) @@ (10 :> Scaled(15))

NsIndex == [household_vouchers |-> household_vouchers,
            voucher_map |-> voucher_map,
            household_balances |-> household_balances]

\* HouseholdIndex.add_voucher
add_voucher(idx, household_id, voucher) ==
    LET hv == IF household_id \in DOMAIN idx.household_vouchers
              THEN idx.household_vouchers
              ELSE (household_id :> [d \in Denoms |-> <<>>]) @@ idx.household_vouchers
        hb == IF household_id \in DOMAIN idx.household_vouchers
              THEN idx.household_balances
              ELSE (household_id :> [d \in Denoms |-> 0]) @@ idx.household_balances
        denom == voucher.denomination
    IN [household_vouchers |->
            [hv EXCEPT ![household_id][denom] = Append(@, voucher.voucher_id)],
        voucher_map |-> (voucher.voucher_id :> voucher) @@ idx.voucher_map,
        household_balances |-> [hb EXCEPT ![household_id][denom] = @ + 1]]

\* HouseholdIndex.get_voucher_household ("" is None)
get_voucher_household(idx, voucher_id) ==
    LET owners == {h \in DOMAIN idx.household_vouchers :
                     \E d \in Denoms : \E i \in 1..Len(idx.household_vouchers[h][d]) :
                        idx.household_vouchers[h][d][i] = voucher_id}
    IN IF owners = {} THEN "" ELSE CHOOSE h \in owners : TRUE

\* list.pop of the first entry equal to voucher_id
PopFirst(list, voucher_id) ==
    IF \E i \in 1..Len(list) : list[i] = voucher_id
    THEN LET k == CHOOSE i \in 1..Len(list) :
                     list[i] = voucher_id /\ \A j \in 1..(i - 1) : list[j] # voucher_id
         IN SubSeq(list, 1, k - 1) \o SubSeq(list, k + 1, Len(list))
    ELSE list

Max(a, b) == IF a > b THEN a ELSE b
Min(a, b) == IF a < b THEN a ELSE b

\* HouseholdIndex.remove_voucher
remove_voucher(idx, voucher_id) ==
    IF voucher_id \notin DOMAIN idx.voucher_map THEN idx
    ELSE LET voucher == idx.voucher_map[voucher_id]
             household_id == get_voucher_household(idx, voucher_id)
             denom == voucher.denomination
             rest == [v \in DOMAIN idx.voucher_map \ {voucher_id} |-> idx.voucher_map[v]]
         IN IF household_id # ""
            THEN [household_vouchers |->
                     [idx.household_vouchers EXCEPT
                         ![household_id][denom] = PopFirst(@, voucher_id)],
                  voucher_map |-> rest,
                  household_balances |->
                     [idx.household_balances EXCEPT
                         ![household_id][denom] = Max(0, @ - 1)]]
            ELSE [idx EXCEPT !.voucher_map = rest]

\* HouseholdIndex.get_household_balance
get_household_balance(idx, household_id) ==
    IF household_id \in DOMAIN idx.household_balances
    THEN idx.household_balances[household_id]
    ELSE [d \in Denoms |-> 0]

TotalOf(balance) == 2 * balance[2] + 5 * balance[5] + 10 * balance[10]

\* HouseholdIndex.find_vouchers_for_redemption, the loop over [10, 5, 2]
RECURSIVE GreedyPick(_, _, _, _)
GreedyPick(idx, household_id, denominations, remaining) ==
    IF denominations = <<>> THEN <<>>
    ELSE LET denom == Head(denominations)
             available == IF household_id \in DOMAIN idx.household_vouchers
                          THEN idx.household_vouchers[household_id][denom]
                          ELSE <<>>
             count_needed == Min(Len(available), remaining \div denom)
             taken == IF count_needed > 0 THEN SubSeq(available, 1, count_needed)
                      ELSE <<>>
             left == IF count_needed > 0 THEN remaining - count_needed * denom
                     ELSE remaining
         IN IF left = 0 THEN taken
            ELSE taken \o GreedyPick(idx, household_id, Tail(denominations), left)

\* HouseholdIndex.find_vouchers_for_redemption
find_vouchers_for_redemption(idx, household_id, amount) ==
    GreedyPick(idx, household_id, <<10, 5, 2>>, amount)

\* VoucherGenerator.generate_vouchers_for_tranche: the index after the loop.
\* random.randint ids are taken to be fresh: first_id, first_id + 1, ...
RECURSIVE AddVouchers(_, _, _, _, _)
AddVouchers(idx, household_id, tranche, units, first_id) ==
    IF units = <<>> THEN idx
    ELSE AddVouchers(
            add_voucher(idx, household_id,
                        [voucher_id |-> first_id, denomination |-> Head(units),
                         tranche |-> tranche]),
            household_id, tranche, Tail(units), first_id + 1)

AllocationUnits(alloc) == Rep(2, alloc[2]) \o Rep(5, alloc[5]) \o Rep(10, alloc[10])

RECURSIVE RemoveAll(_, _)
RemoveAll(idx, ids) ==
    IF ids = <<>> THEN idx
    ELSE RemoveAll(remove_voucher(idx, Head(ids)), Tail(ids))

\* new_services.redeem_vouchers, the rows of one denomination group; the
\* remark counter runs on across the groups of a transaction.
GroupRows(household_id, denom, count, remark_counter) ==
    [i \in 1..count |->
        [household_id |-> household_id,
         denomination_used |-> denom,
         amount_redeemed |-> denom * count,
         remarks |-> IF i = count THEN "Final denomination used"
                     ELSE ToString(remark_counter + i - 1)]]

\* new_services.redeem_vouchers, the rows of a transaction: denomination_counts
\* keeps the order in which the denominations were met (10, 5, 2).
RECURSIVE RedemptionRows(_, _, _, _)
RedemptionRows(household_id, order, counts, remark_counter) ==
    IF order = <<>> THEN <<>>
    ELSE LET d == Head(order) IN
         IF counts[d] = 0
         THEN RedemptionRows(household_id, Tail(order), counts, remark_counter)
         ELSE GroupRows(household_id, d, counts[d], remark_counter)
              \o RedemptionRows(household_id, Tail(order), counts,
                                remark_counter + counts[d] - 1)

NsFail(op) == [op |-> op, ok |-> FALSE, amount_redeemed |-> 0, vouchers_used |-> 0]

ApplyIndex(idx) ==
    /\ household_vouchers' = idx.household_vouchers
    /\ voucher_map' = idx.voucher_map
    /\ household_balances' = idx.household_balances

\* new_services.register_household
NS_register_household(h) ==
    /\ IF h \in DOMAIN ns_households
       THEN /\ ns_ret' = NsFail("register_household")
            /\ UNCHANGED ns_households
       ELSE /\ ns_households' = (h :> {}) @@ ns_households
            /\ ns_ret' = [NsFail("register_household") EXCEPT !.ok = TRUE]
    /\ UNCHANGED <<ns_merchants, household_vouchers, voucher_map, household_balances,
                   ns_transactions, ns_next_id>>
    /\ NSFrame

\* new_services.register_merchant_from_csv_row
NS_register_merchant(m) ==
    /\ IF m \in ns_merchants
       THEN /\ ns_ret' = NsFail("register_merchant")
            /\ UNCHANGED ns_merchants
       ELSE /\ ns_merchants' = ns_merchants \cup {m}
            /\ ns_ret' = [NsFail("register_merchant") EXCEPT !.ok = TRUE]
    /\ UNCHANGED <<ns_households, household_vouchers, voucher_map, household_balances,
                   ns_transactions, ns_next_id>>
    /\ NSFrame

\* new_services.claim_vouchers
NS_claim_vouchers(h, tranche) ==
    /\ ns_next_id <= MaxNsClaims * Len(AllocationUnits(VoucherAllocation("May2025")))
    /\ IF \/ h \notin DOMAIN ns_households
          \/ tranche \in ns_households[h]
          \/ tranche \notin NsTranches
       THEN /\ ns_ret' = NsFail("claim_vouchers")
            /\ UNCHANGED <<ns_households, household_vouchers, voucher_map,
                           household_balances, ns_next_id>>
       ELSE LET units == AllocationUnits(VoucherAllocation(tranche)) IN
            /\ ApplyIndex(AddVouchers(NsIndex, h, tranche, units, ns_next_id))
            /\ ns_households' = [ns_households EXCEPT ![h] = @ \cup {tranche}]
            /\ ns_next_id' = ns_next_id + Len(units)
            /\ ns_ret' = [NsFail("claim_vouchers") EXCEPT !.ok = TRUE]
    /\ UNCHANGED <<ns_merchants, ns_transactions>>
    /\ NSFrame

\* new_services.redeem_vouchers
NS_redeem_vouchers(h, m, amount, method) ==
    /\ Len(ns_transactions) < MaxNsRedeems
    /\ LET balance == get_household_balance(NsIndex, h)
           vouchers_to_redeem ==
               IF method = "optimal"
               THEN find_vouchers_for_redemption(NsIndex, h, amount)
               ELSE <<>>
       IN IF \/ h \notin DOMAIN ns_households
             \/ m \notin ns_merchants
             \/ TotalOf(balance) < amount
             \/ vouchers_to_redeem = <<>>
          THEN /\ ns_ret' = NsFail("redeem_vouchers")
               /\ UNCHANGED <<household_vouchers, voucher_map, household_balances,
                              ns_transactions>>
          ELSE LET denomination_counts ==
                       [d \in Denoms |->
                           Cardinality({i \in 1..Len(vouchers_to_redeem) :
                               voucher_map[vouchers_to_redeem[i]].denomination = d})]
               IN /\ ApplyIndex(RemoveAll(NsIndex, vouchers_to_redeem))
                  /\ ns_transactions' =
                        Append(ns_transactions,
                               RedemptionRows(h, <<10, 5, 2>>, denomination_counts, 1))
                  /\ ns_ret' = [op |-> "redeem_vouchers", ok |-> TRUE,
                                amount_redeemed |-> amount,
                                vouchers_used |-> Len(vouchers_to_redeem)]
    /\ UNCHANGED <<ns_households, ns_merchants, ns_next_id>>
    /\ NSFrame

NSInit ==
    /\ ns_households = <<>>
    /\ ns_merchants = {}
    /\ household_vouchers = <<>>
    /\ voucher_map = <<>>
    /\ household_balances = <<>>
    /\ ns_transactions = <<>>
    /\ ns_next_id = 1
    /\ ns_ret = NsFail("init")

NSNext ==
    \/ \E h \in Households : NS_register_household(h)
    \/ \E m \in Merchants : NS_register_merchant(m)
    \/ \E h \in Households, t \in NsTrancheInputs : NS_claim_vouchers(h, t)
    \/ \E h \in Households, m \in Merchants, a \in 0..MaxNsAmount, meth \in NsMethods :
          NS_redeem_vouchers(h, m, a, meth)

(***************************************************************************)
(* server.py : the Flask handlers over the data dictionary                 *)
(***************************************************************************)

\* Largest amount asked of create_redemption and the most redemption codes
\* followed.  generate_redemption_code draws 20 random characters: the codes
\* are taken to be distinct and are numbered in order of creation.
MaxSrvAmount == 17
MaxSrvCodes == 2

\* The hours the clock runs through.
MaxSrvNow == 1

\* claim_vouchers, the allocation of a tranche (scaled)
SrvAllocation(tranche) ==
    IF tranche = "May2025"
    THEN (2 :> Scaled(50)) @@ (5 :> Scaled(20)) @@ (10 :> Scaled(30))
    ELSE (2 :> Scaled(30)) @@ (5 :> Scaled(12)) @@ (10 :> Scaled(15))

SrvReply(op, ok) == [op |-> op, ok |-> ok]

\* server.register_household
SRV_register_household(h) ==
    /\ IF h \in DOMAIN srv_households
       THEN /\ srv_ret' = SrvReply("register_household", FALSE)
            /\ UNCHANGED <<srv_households, srv_vouchers>>
       ELSE /\ srv_households' = (h :> <<>>) @@ srv_households
            /\ srv_vouchers' = (h :> [d \in Denoms |-> 0]) @@ srv_vouchers
            /\ srv_ret' = SrvReply("register_household", TRUE)
    /\ UNCHANGED <<srv_merchants, srv_codes>>
    /\ UNCHANGED <<srv_now, srv_csv>>
    /\ SrvFrame

\* server.register_merchant
SRV_register_merchant(m) ==
    /\ IF m \in srv_merchants
       THEN /\ srv_ret' = SrvReply("register_merchant", FALSE)
            /\ UNCHANGED srv_merchants
       ELSE /\ srv_merchants' = srv_merchants \cup {m}
            /\ srv_ret' = SrvReply("register_merchant", TRUE)
    /\ UNCHANGED <<srv_households, srv_vouchers, srv_codes>>
    /\ UNCHANGED <<srv_now, srv_csv>>
    /\ SrvFrame

\* server.claim_vouchers
SRV_claim_vouchers(h, tranche) ==
    /\ IF \/ h \notin DOMAIN srv_households
          \/ \E i \in 1..Len(srv_households[h]) : srv_households[h][i] = tranche
          \/ tranche \notin NsTranches
       THEN /\ srv_ret' = SrvReply("claim_vouchers", FALSE)
            /\ UNCHANGED <<srv_households, srv_vouchers>>
       ELSE /\ srv_vouchers' =
                  [srv_vouchers EXCEPT
                      ![h] = [d \in Denoms |-> @[d] + SrvAllocation(tranche)[d]]]
            /\ srv_households' = [srv_households EXCEPT ![h] = Append(@, tranche)]
            /\ srv_ret' = SrvReply("claim_vouchers", TRUE)
    /\ UNCHANGED <<srv_merchants, srv_codes>>
    /\ UNCHANGED <<srv_now, srv_csv>>
    /\ SrvFrame

\* server.create_redemption, the greedy loop over [10, 5, 2]:
\* [details |-> redemption_details in insertion order, remaining |-> ...]
RECURSIVE SrvGreedy(_, _, _)
SrvGreedy(balance, denominations, remaining) ==
    IF denominations = <<>> THEN [details |-> <<>>, remaining |-> remaining]
    ELSE LET denom == Head(denominations)
             needed == Min(balance[denom], remaining \div denom)
             rest == SrvGreedy(balance, Tail(denominations),
                               IF needed > 0 THEN remaining - needed * denom
                               ELSE remaining)
         IN IF needed > 0
            THEN [rest EXCEPT !.details = <<[denom |-> denom, count |-> needed]>> \o @]
            ELSE rest

\* server.create_redemption
SRV_create_redemption(h, m, amount) ==
    /\ Len(srv_codes) < MaxSrvCodes
    /\ IF \/ h \notin DOMAIN srv_households
          \/ m \notin srv_merchants
          \/ TotalOf(srv_vouchers[h]) < amount
          \/ SrvGreedy(srv_vouchers[h], <<10, 5, 2>>, amount).remaining # 0
       THEN /\ srv_ret' = SrvReply("create_redemption", FALSE)
            /\ UNCHANGED srv_codes
       ELSE /\ srv_codes' =
                  Append(srv_codes,
                         [household_id |-> h, merchant_id |-> m, amount |-> amount,
                          status |-> "pending", created_at |-> srv_now,
                          redemption_details |->
                              SrvGreedy(srv_vouchers[h], <<10, 5, 2>>, amount).details])
            /\ srv_ret' = SrvReply("create_redemption", TRUE)
    /\ UNCHANGED <<srv_households, srv_merchants, srv_vouchers>>
    /\ UNCHANGED <<srv_now, srv_csv>>
    /\ SrvFrame

\* server.verify_redemption, the deduction loop.  balance is the very dict
\* held in data["vouchers"], so each decrement is already in the data when
\* a later denomination is found short.
RECURSIVE SrvDeduct(_, _)
SrvDeduct(balance, details) ==
    IF details = <<>> THEN [balance |-> balance, ok |-> TRUE]
    ELSE LET e == Head(details) IN
         IF balance[e.denom] < e.count
         THEN [balance |-> balance, ok |-> FALSE]
         ELSE SrvDeduct([balance EXCEPT ![e.denom] = @ - e.count], Tail(details))

\* server.save_to_csv: the rows of a transaction, one for each voucher of
\* each entry of redemption_details, written to the file named by the hour of
\* datetime.now(); Transaction_Date_Time is the transaction's created_at.
SrvCsvRows(now, code, transaction) ==
    LET details == transaction.redemption_details
    IN Flatten([k \in 1..Len(details) |->
                   [i \in 1..details[k].count |->
                       [file |-> now,
                        Transaction_ID |-> code,
                        Household_ID |-> transaction.household_id,
                        Merchant_ID |-> transaction.merchant_id,
                        Transaction_Date_Time |-> transaction.created_at,
                        Denomination_Used |-> details[k].denom,
                        Amount_Redeemed |-> details[k].denom * details[k].count,
                        Remarks |-> IF i = details[k].count
                                    THEN "Final denomination used"
                                    ELSE ToString(i)]]])

\* server.verify_redemption without its test of the transaction's status
SRV_verify_redemptionAnyStatus(m, code) ==
    /\ IF \/ m \notin srv_merchants
          \/ code \notin 1..Len(srv_codes)
       THEN /\ srv_ret' = SrvReply("verify_redemption", FALSE)
            /\ UNCHANGED <<srv_vouchers, srv_codes, srv_csv>>
       ELSE LET transaction == srv_codes[code]
                household_id == transaction.household_id
                done == SrvDeduct(srv_vouchers[household_id],
                                  transaction.redemption_details)
            IN IF transaction.merchant_id # m
               THEN /\ srv_ret' = SrvReply("verify_redemption", FALSE)
                    /\ UNCHANGED <<srv_vouchers, srv_codes, srv_csv>>
               ELSE /\ srv_vouchers' = [srv_vouchers EXCEPT ![household_id] = done.balance]
                    /\ srv_codes' = IF done.ok
                                    THEN [srv_codes EXCEPT ![code].status = "completed"]
                                    ELSE srv_codes
                    /\ srv_csv' = IF done.ok
                                  THEN srv_csv \o SrvCsvRows(srv_now, code, transaction)
                                  ELSE srv_csv
                    /\ srv_ret' = SrvReply("verify_redemption", done.ok)
    /\ UNCHANGED <<srv_households, srv_merchants, srv_now>>
    /\ SrvFrame

\* server.verify_redemption
SRV_verify_redemption(m, code) ==
    /\ IF \/ m \notin srv_merchants
          \/ code \notin 1..Len(srv_codes)
       THEN /\ srv_ret' = SrvReply("verify_redemption", FALSE)
            /\ UNCHANGED <<srv_vouchers, srv_codes, srv_csv>>
       ELSE LET transaction == srv_codes[code]
                household_id == transaction.household_id
                done == SrvDeduct(srv_vouchers[household_id],
                                  transaction.redemption_details)
            IN IF \/ transaction.status # "pending"
                  \/ transaction.merchant_id # m
               THEN /\ srv_ret' = SrvReply("verify_redemption", FALSE)
                    /\ UNCHANGED <<srv_vouchers, srv_codes, srv_csv>>
               ELSE /\ srv_vouchers' = [srv_vouchers EXCEPT ![household_id] = done.balance]
                    /\ srv_codes' = IF done.ok
                                    THEN [srv_codes EXCEPT ![code].status = "completed"]
                                    ELSE srv_codes
                    /\ srv_csv' = IF done.ok
                                  THEN srv_csv \o SrvCsvRows(srv_now, code, transaction)
                                  ELSE srv_csv
                    /\ srv_ret' = SrvReply("verify_redemption", done.ok)
    /\ UNCHANGED <<srv_households, srv_merchants, srv_now>>
    /\ SrvFrame

\* The clock passes into the next hour
SRV_Tick ==
    /\ srv_now < MaxSrvNow
    /\ srv_now' = srv_now + 1
    /\ UNCHANGED <<srv_households, srv_merchants, srv_vouchers, srv_codes, srv_ret,
                   srv_csv>>
    /\ SrvFrame

SrvInit ==
    /\ srv_households = <<>>
    /\ srv_merchants = {}
    /\ srv_vouchers = <<>>
    /\ srv_codes = <<>>
    /\ srv_ret = SrvReply("init", TRUE)
    /\ srv_now = 0
    /\ srv_csv = <<>>

SrvNext ==
    \/ \E h \in Households : SRV_register_household(h)
    \/ \E m \in Merchants : SRV_register_merchant(m)
    \/ \E h \in Households, t \in NsTrancheInputs : SRV_claim_vouchers(h, t)
    \/ \E h \in Households, m \in Merchants, a \in 0..MaxSrvAmount :
          SRV_create_redemption(h, m, a)
    \/ \E m \in Merchants, c \in 1..MaxSrvCodes : SRV_verify_redemption(m, c)
    \/ SRV_Tick

\* The largest count of a denomination a household is left with below.
MaxSrvWideCount == 3

SrvWideMerchants == {"M1", "M2"}

\* The data after one household has claimed and redemptions have brought its
\* counts down to a few vouchers of each denomination; two merchants.
SrvWideInit ==
    /\ srv_households = [h \in Households |-> <<"May2025">>]
    /\ srv_merchants = SrvWideMerchants
    /\ srv_vouchers \in [Households -> [Denoms -> 0..MaxSrvWideCount]]
    /\ srv_codes = <<>>
    /\ srv_ret = SrvReply("init", TRUE)
    /\ srv_now = 0
    /\ srv_csv = <<>>

SrvWideNext ==
    \/ \E h \in Households, m \in SrvWideMerchants, a \in 0..MaxSrvAmount :
          SRV_create_redemption(h, m, a)
    \/ \E m \in SrvWideMerchants, c \in 1..MaxSrvCodes : SRV_verify_redemption(m, c)

(***************************************************************************)
(* services.py : registration, claim_tranche, redeem                       *)
(***************************************************************************)

\* The most claim_tranche and redeem calls followed, and the longest request
\* list and largest count handed to redeem.
MaxSvClaims == 1
MaxSvRedeems == 2
MaxSvRequest == 2
MaxSvCount == 2

\* register_household / claim_tranche: the bundle {2: 30, 5: 12, 10: 15}
SvBundle == (2 :> Scaled(30)) @@ (5 :> Scaled(12)) @@ (10 :> Scaled(15))

\* Voucher ids _new_voucher_id can have handed out, and 0, an id it never did
SvMaxId == (1 + MaxSvClaims) * Len(AllocationUnits(SvBundle))
SvIdInputs == 0..SvMaxId

SeqsUpTo(S, n) == UNION {[1..k -> S] : k \in 1..n}

\* services._add_vouchers for each entry of the bundle; _new_voucher_id
\* returns an id in neither voucher_owner nor redeemed_voucher_ids.
SvAddBundle(bucket, first_id) ==
    bucket \o [i \in 1..Len(AllocationUnits(SvBundle)) |->
                  [voucher_id |-> first_id + i - 1,
                   denomination |-> AllocationUnits(SvBundle)[i]]]

SvBucket(h) ==
    IF h \in DOMAIN vouchers_by_household THEN vouchers_by_household[h] ELSE <<>>

\* services.redeem, voucher_ids branch: lookup.get(vid), None skipped
RECURSIVE SvLookupAll(_, _)
SvLookupAll(bucket, voucher_ids) ==
    IF voucher_ids = <<>> THEN <<>>
    ELSE LET hit(v) == v.voucher_id = Head(voucher_ids)
             found == SelectSeq(bucket, hit)
         IN (IF found = <<>> THEN <<>> ELSE <<found[Len(found)]>>)
            \o SvLookupAll(bucket, Tail(voucher_ids))

\* services.redeem, denominations branch: by_denom[denom][:count]
RECURSIVE SvTakeCounts(_, _)
SvTakeCounts(bucket, denominations) ==
    IF denominations = <<>> THEN <<>>
    ELSE LET item == Head(denominations)
             ofDenom(v) == v.denomination = item.denomination
             have == SelectSeq(bucket, ofDenom)
         IN SubSeq(have, 1, Min(Len(have), item.count))
            \o SvTakeCounts(bucket, Tail(denominations))

\* services.redeem, the rows of the transaction: groups by denomination in
\* descending order, remarks 1 .. N-1 then "Final denomination used"
RECURSIVE SvRows(_, _, _)
SvRows(tx, to_redeem, order) ==
    IF order = <<>> THEN <<>>
    ELSE LET ofDenom(v) == v.denomination = Head(order)
             vs == SelectSeq(to_redeem, ofDenom)
         IN [idx \in 1..Len(vs) |->
                [Transaction_ID |-> tx.transaction_id,
                 Household_ID |-> tx.household_id,
                 Voucher_ID |-> vs[idx].voucher_id,
                 Denomination_Used |-> Head(order),
                 Amount_Redeemed |-> Head(order) * Len(vs),
                 Remarks |-> IF idx < Len(vs) THEN ToString(idx)
                             ELSE "Final denomination used"]]
            \o SvRows(tx, to_redeem, Tail(order))

\* services.register_household
SV_register_household(h) ==
    /\ IF h \in sv_households
       THEN /\ sv_ret' = [op |-> "register_household", ok |-> FALSE, rows_written |-> 0]
            /\ UNCHANGED <<sv_households, vouchers_by_household, sv_next_id>>
       ELSE /\ sv_households' = sv_households \cup {h}
            /\ vouchers_by_household' =
                  (h :> SvAddBundle(SvBucket(h), sv_next_id)) @@ vouchers_by_household
            /\ sv_next_id' = sv_next_id + Len(AllocationUnits(SvBundle))
            /\ sv_ret' = [op |-> "register_household", ok |-> TRUE, rows_written |-> 0]
    /\ UNCHANGED <<redeemed_voucher_ids, sv_rows, sv_ntx>>
    /\ SvFrame

\* services.claim_tranche, for a registered household
SV_claim_tranche(h) ==
    /\ sv_next_id + Len(AllocationUnits(SvBundle)) <= SvMaxId + 1
    /\ h \in sv_households
    /\ vouchers_by_household' =
          (h :> SvAddBundle(SvBucket(h), sv_next_id)) @@ vouchers_by_household
    /\ sv_next_id' = sv_next_id + Len(AllocationUnits(SvBundle))
    /\ sv_ret' = [op |-> "claim_tranche", ok |-> TRUE, rows_written |-> 0]
    /\ UNCHANGED <<sv_households, redeemed_voucher_ids, sv_rows, sv_ntx>>
    /\ SvFrame

\* services.redeem, for a registered household
SV_redeem(h, voucher_ids, denominations) ==
    /\ sv_ntx < MaxSvRedeems
    /\ h \in sv_households
    /\ LET tx == [transaction_id |-> sv_ntx + 1, household_id |-> h]
           bucket == SvBucket(h)
           to_redeem == IF voucher_ids # <<>> THEN SvLookupAll(bucket, voucher_ids)
                        ELSE IF denominations # <<>>
                             THEN SvTakeCounts(bucket, denominations)
                             ELSE <<>>
           rows == SvRows(tx, to_redeem, <<10, 5, 2>>)
           redeem_ids == {rows[i].Voucher_ID : i \in 1..Len(rows)}
           kept(v) == v.voucher_id \notin redeem_ids
       IN /\ vouchers_by_household' =
                IF rows # <<>>
                THEN (h :> SelectSeq(bucket, kept)) @@ vouchers_by_household
                ELSE vouchers_by_household
          /\ redeemed_voucher_ids' = redeemed_voucher_ids \cup redeem_ids
          /\ sv_rows' = sv_rows \o rows
          /\ sv_ret' = [op |-> "redeem", ok |-> TRUE, rows_written |-> Len(rows)]
    /\ sv_ntx' = sv_ntx + 1
    /\ UNCHANGED <<sv_households, sv_next_id>>
    /\ SvFrame

SvInit ==
    /\ sv_households = {}
    /\ vouchers_by_household = <<>>
    /\ redeemed_voucher_ids = {}
    /\ sv_rows = <<>>
    /\ sv_next_id = 1
    /\ sv_ntx = 0
    /\ sv_ret = [op |-> "init", ok |-> TRUE, rows_written |-> 0]

SvNext ==
    \/ \E h \in Households : SV_register_household(h)
    \/ \E h \in Households : SV_claim_tranche(h)
    \/ \E h \in Households, ids \in SeqsUpTo(SvIdInputs, MaxSvRequest) :
          SV_redeem(h, ids, <<>>)
    \/ \E h \in Households,
          dens \in SeqsUpTo([denomination : Denoms, count : 0..MaxSvCount],
                            MaxSvRequest) :
          SV_redeem(h, <<>>, dens)

(***************************************************************************)
(* services2.py : register_household, claim_tranche, redeem                *)
(***************************************************************************)

\* The most successful redeem calls followed, and the largest count of one
\* denomination in a request.
MaxS2Redeems == 1
MaxS2Count == 1

S2Tranches == {"May2025", "Jan2026"}

\* services2.claim_tranche: dist (scaled)
S2Dist(tranche_name) ==
    IF tranche_name = "May2025"
    THEN (2 :> Scaled(50)) @@ (5 :> Scaled(40)) @@ (10 :> Scaled(20))
    ELSE (2 :> Scaled(50)) @@ (5 :> Scaled(20)) @@ (10 :> Scaled(10))

\* A request dict {denom_str: count}, as the list of its items in the order
\* the caller inserted them, largest or smallest denomination first.  A
\* denomination left out of the dict behaves as one asked with count 0.
S2Requests ==
    {[i \in 1..3 |-> [denomination |-> order[i], count |-> counts[order[i]]]] :
        order \in {<<10, 5, 2>>, <<2, 5, 10>>},
        counts \in [Denoms -> 0..MaxS2Count]}

\* The Transaction the caller hands in: server2.api_redeem builds a new one,
\* with no vouchers and amount 0.0, for every call
S2NewTx == [vouchers_used |-> <<>>, amount |-> 0]

S2Last(op, err) == [op |-> op, err |-> err, tranche |-> "", denominations |-> <<>>]

\* services2.redeem, l.82: the active vouchers of a denomination
S2Available(v_list, denom) ==
    LET ok(v) == v.status = "active" /\ v.denomination = denom
    IN SelectSeq(v_list, ok)

\* services2.redeem, step 1: [ok, selected, total_amount] when the loop ends
\* or raises "Insufficient"
RECURSIVE S2Select(_, _, _, _)
S2Select(v_list, items, selected, total_amount) ==
    IF items = <<>>
    THEN [ok |-> TRUE, selected |-> selected, total_amount |-> total_amount]
    ELSE LET denom == Head(items).denomination
             count == Head(items).count
             available == S2Available(v_list, denom)
         IN IF Len(available) < count
            THEN [ok |-> FALSE, selected |-> selected, total_amount |-> total_amount]
            ELSE S2Select(v_list, Tail(items),
                          selected \o SubSeq(available, 1, count),
                          total_amount + denom * count)

\* services2.redeem, step 2: v.status = "redeemed" for the selected vouchers
S2Mark(v_list, selected) ==
    [i \in 1..Len(v_list) |->
        IF \E k \in 1..Len(selected) : selected[k].voucher_id = v_list[i].voucher_id
        THEN [v_list[i] EXCEPT !.status = "redeemed"]
        ELSE v_list[i]]

\* A variant of steps 1 and 2 that marks the vouchers of each denomination
\* as soon as that denomination has passed its check
S2StepsEager(v_list, items, tx) ==
    LET s == S2Select(v_list, items, <<>>, 0)
    IN [ok |-> s.ok,
        v_list |-> S2Mark(v_list, s.selected),
        tx |-> [vouchers_used |-> tx.vouchers_used \o S2Mark(s.selected, s.selected),
                amount |-> IF s.ok THEN s.total_amount ELSE tx.amount]]

\* services2.redeem, steps 1 and 2: the tranche's vouchers and the
\* Transaction when step 2 is done, or when step 1 raises
S2Steps(v_list, items, tx) ==
    LET s == S2Select(v_list, items, <<>>, 0)
    IN IF s.ok
       THEN [ok |-> TRUE,
             v_list |-> S2Mark(v_list, s.selected),
             tx |-> [vouchers_used |->
                        tx.vouchers_used \o S2Mark(s.selected, s.selected),
                     amount |-> s.total_amount]]
       ELSE [ok |-> FALSE, v_list |-> v_list, tx |-> tx]

\* services2.register_household
S2_register_household(h) ==
    /\ IF h \in DOMAIN s2_households
       THEN /\ s2_last' = S2Last("register_household", "exists")
            /\ UNCHANGED s2_households
       ELSE /\ s2_households' = (h :> <<>>) @@ s2_households
            /\ s2_last' = S2Last("register_household", "")
    /\ UNCHANGED <<s2_redemptions, s2_file, s2_tx>>
    /\ S2Frame

\* services2.claim_tranche
S2_claim_tranche(h, tranche_name) ==
    /\ IF h \notin DOMAIN s2_households
       THEN /\ s2_last' = S2Last("claim_tranche", "not found")
            /\ UNCHANGED s2_households
       ELSE IF tranche_name \in DOMAIN s2_households[h]
       THEN /\ s2_last' = S2Last("claim_tranche", "already claimed")
            /\ UNCHANGED s2_households
       ELSE LET units == AllocationUnits(S2Dist(tranche_name))
                minted == [i \in 1..Len(units) |->
                              [voucher_id |-> <<tranche_name, i>>,
                               denomination |-> units[i],
                               tranche |-> tranche_name,
                               status |-> "active"]]
            IN /\ s2_households' =
                     [s2_households EXCEPT ![h] = (tranche_name :> minted) @@ @]
               /\ s2_last' = S2Last("claim_tranche", "")
    /\ UNCHANGED <<s2_redemptions, s2_file, s2_tx>>
    /\ S2Frame

\* services2.export_redemptions_to_csv: the file is rewritten from the list
S2Export(transactions, file) ==
    IF transactions = <<>> THEN file
    ELSE [i \in 1..Len(transactions) |-> [amount |-> transactions[i].amount]]

\* The call raises ValueError
S2Raises(h, tranche, denominations) ==
    IF h \notin DOMAIN s2_households THEN TRUE
    ELSE IF tranche \notin DOMAIN s2_households[h] THEN TRUE
    ELSE ~S2Select(s2_households[h][tranche], denominations, <<>>, 0).ok

\* services2.redeem
S2_redeem(h, tranche, denominations) ==
    /\ IF Len(s2_redemptions) < MaxS2Redeems THEN TRUE
       ELSE S2Raises(h, tranche, denominations)
    /\ LET tx == S2NewTx
           call == [S2Last("redeem", "") EXCEPT !.tranche = tranche,
                                               !.denominations = denominations]
       IN IF h \notin DOMAIN s2_households
          THEN /\ s2_last' = [call EXCEPT !.err = "Household not found"]
               /\ s2_tx' = tx
               /\ UNCHANGED <<s2_households, s2_redemptions, s2_file>>
          ELSE IF tranche \notin DOMAIN s2_households[h]
          THEN /\ s2_last' = [call EXCEPT !.err = "No vouchers found"]
               /\ s2_tx' = tx
               /\ UNCHANGED <<s2_households, s2_redemptions, s2_file>>
          ELSE LET out == S2Steps(s2_households[h][tranche], denominations, tx)
               IN /\ s2_households' = [s2_households EXCEPT ![h][tranche] = out.v_list]
                  /\ s2_tx' = out.tx
                  /\ s2_last' = [call EXCEPT !.err = IF out.ok THEN "" ELSE "Insufficient"]
                  /\ s2_redemptions' = IF out.ok THEN Append(s2_redemptions, out.tx)
                                       ELSE s2_redemptions
                  /\ s2_file' = IF out.ok
                                THEN S2Export(Append(s2_redemptions, out.tx), s2_file)
                                ELSE s2_file
    /\ S2Frame

S2Init ==
    /\ s2_households = <<>>
    /\ s2_redemptions = <<>>
    /\ s2_file = <<>>
    /\ s2_tx = S2NewTx
    /\ s2_last = S2Last("init", "")

S2Next ==
    \/ \E h \in Households : S2_register_household(h)
    \/ \E h \in Households, t \in S2Tranches : S2_claim_tranche(h, t)
    \/ \E h \in Households, t \in S2Tranches, r \in S2Requests :
          S2_redeem(h, t, r)

\* A new process starts and calls services2.load_state: the households come
\* back from system_state.json, which save_state wrote after the last change
\* of them, and redemptions_by_hour, which save_state leaves out, is empty.
S2_load_state ==
    /\ s2_redemptions' = <<>>
    /\ s2_last' = S2Last("load_state", "")
    /\ UNCHANGED <<s2_households, s2_file, s2_tx>>
    /\ S2Frame

S2RestartNext ==
    \/ \E h \in Households : S2_register_household(h)
    \/ \E h \in Households, t \in S2Tranches : S2_claim_tranche(h, t)
    \/ \E h \in Households, t \in S2Tranches, r \in S2Requests :
          S2_redeem(h, t, r)
    \/ S2_load_state

(***************************************************************************)
(* app.py : InMemoryStore.add_vouchers and redeem_vouchers, which the      *)
(* threaded Flask server runs for concurrent requests with no lock         *)
(***************************************************************************)

\* The largest count of one denomination in a request, the most calls that
\* get past the balance check, and the seconds the clock runs.
MaxAppCount == 1
MaxAppCalls == 2
MaxAppNow == 1

AppThreads == {"t1", "t2"}
AppTranches == {"T1", "T2"}
AppOrder == <<2, 5, 10>>

\* InMemoryStore.add_vouchers: added_2, added_5, added_10 (scaled)
AppAdded(tranche_id) ==
    IF tranche_id = "T1"
    THEN (2 :> Scaled(50)) @@ (5 :> Scaled(20)) @@ (10 :> Scaled(30))
    ELSE (2 :> Scaled(30)) @@ (5 :> Scaled(12)) @@ (10 :> Scaled(18))

AppIdle(ret) ==
    [pc |-> "idle", household_id |-> "", merchant_id |-> "",
     vouchers |-> [d \in Denoms |-> 0], k |-> 1, tmp |-> 0, ret |-> ret]

\* InMemoryStore.add_vouchers
APP_add_vouchers(h, tranche_id) ==
    /\ h \in DOMAIN app_households
    /\ \A i \in 1..Len(app_households[h].claimed_tranches) :
          app_households[h].claimed_tranches[i] # tranche_id
    /\ tranche_id \in AppTranches
    /\ app_households' =
          [app_households EXCEPT
              ![h].balance = [d \in Denoms |-> @[d] + AppAdded(tranche_id)[d]],
              ![h].claimed_tranches = Append(@, tranche_id)]
    /\ app_stats' = [app_stats EXCEPT !.vouchers_claimed[tranche_id] = @ + 1]
    /\ UNCHANGED <<app_merchants, app_transactions, app_now, app_threads, app_ncalls,
                   app_hourly>>
    /\ AppFrame

\* InMemoryStore.redeem_vouchers, l.585-597: the lookups and the balance check
APP_redeem_check(t, h, m, vouchers) ==
    /\ app_threads[t].pc = "idle"
    /\ app_ncalls < MaxAppCalls
    /\ IF \/ h \notin DOMAIN app_households
          \/ m \notin app_merchants
          \/ \E d \in Denoms : app_households[h].balance[d] < vouchers[d]
       THEN /\ app_threads' = [app_threads EXCEPT ![t] = AppIdle("error")]
            /\ UNCHANGED app_ncalls
       ELSE /\ app_threads' =
                  [app_threads EXCEPT
                      ![t] = [AppIdle("") EXCEPT !.pc = "load", !.household_id = h,
                                                 !.merchant_id = m,
                                                 !.vouchers = vouchers]]
            /\ app_ncalls' = app_ncalls + 1
    /\ UNCHANGED <<app_households, app_merchants, app_transactions, app_stats, app_now,
                   app_hourly>>
    /\ AppFrame

\* household.balance_N -= vouchers_N, l.603-605: the read of the attribute
APP_redeem_load(t) ==
    /\ app_threads[t].pc = "load"
    /\ app_threads' =
          [app_threads EXCEPT
              ![t].tmp = app_households[app_threads[t].household_id]
                            .balance[AppOrder[app_threads[t].k]],
              ![t].pc = "store"]
    /\ UNCHANGED <<app_households, app_merchants, app_transactions, app_stats, app_now,
                   app_ncalls, app_hourly>>
    /\ AppFrame

\* household.balance_N -= vouchers_N: the write of the attribute
APP_redeem_store(t) ==
    /\ app_threads[t].pc = "store"
    /\ LET th == app_threads[t]
           d == AppOrder[th.k]
       IN /\ app_households' =
                [app_households EXCEPT
                    ![th.household_id].balance[d] = th.tmp - th.vouchers[d]]
          /\ app_threads' =
                [app_threads EXCEPT
                    ![t].pc = IF th.k = Len(AppOrder) THEN "record" ELSE "load",
                    ![t].k = IF th.k = Len(AppOrder) THEN 1 ELSE th.k + 1,
                    ![t].tmp = 0]
    /\ UNCHANGED <<app_merchants, app_transactions, app_stats, app_now, app_ncalls,
                   app_hourly>>
    /\ AppFrame

\* InMemoryStore._append_to_hourly_csv: one row for each entry of
\* voucher_details ($2, then $5, then $10), remarks numbered through the whole
\* list.  The file is the one named by the hour of Transaction_Date_Time.
AppHourlyRows(transaction_id, transaction) ==
    LET voucher_details == AllocationUnits(transaction.vouchers)
        total_vouchers == Len(voucher_details)
    IN [i \in 1..total_vouchers |->
           [Transaction_ID |-> transaction_id,
            Household_ID |-> transaction.household_id,
            Merchant_ID |-> transaction.merchant_id,
            Transaction_Date_Time |-> transaction_id,
            Denomination_Used |-> voucher_details[i],
            Amount_Redeemed |-> voucher_details[i],
            Remarks |-> IF i = total_vouchers THEN "Final denomination used"
                        ELSE ToString(i)]]

\* InMemoryStore.redeem_vouchers, l.607-678: the transaction record, keyed by
\* "TX" + the second of the clock, the statistics and the hourly file
APP_redeem_record(t) ==
    /\ app_threads[t].pc = "record"
    /\ LET th == app_threads[t]
           total_amount == TotalOf(th.vouchers)
           transaction == [household_id |-> th.household_id,
                           merchant_id |-> th.merchant_id,
                           amount |-> total_amount,
                           vouchers |-> th.vouchers]
           stored == (app_now :> transaction) @@ app_transactions
       IN /\ app_transactions' = stored
          /\ app_stats' =
                [app_stats EXCEPT
                    !.total_transactions = Cardinality(DOMAIN stored),
                    !.total_amount_redeemed = @ + total_amount]
          /\ app_hourly' = app_hourly \o AppHourlyRows(app_now, transaction)
          /\ app_threads' = [app_threads EXCEPT ![t] = AppIdle("success")]
    /\ UNCHANGED <<app_households, app_merchants, app_now, app_ncalls>>
    /\ AppFrame

APP_Tick ==
    /\ app_now < MaxAppNow
    /\ app_now' = app_now + 1
    /\ UNCHANGED <<app_households, app_merchants, app_transactions, app_stats,
                   app_threads, app_ncalls, app_hourly>>
    /\ AppFrame

\* InMemoryStore.__init__ with no CSV data: _load_sample_data (one household
\* that has claimed T1, one of its merchants)
AppInit ==
    /\ app_households =
          [h \in Households |-> [balance |-> AppAdded("T1"),
                                 claimed_tranches |-> <<"T1">>]]
    /\ app_merchants = Merchants
    /\ app_transactions = <<>>
    /\ app_stats = [total_transactions |-> 0, total_amount_redeemed |-> 0,
                    vouchers_claimed |-> ("T1" :> 1) @@ ("T2" :> 0)]
    /\ app_now = 0
    /\ app_threads = [t \in AppThreads |-> AppIdle("")]
    /\ app_ncalls = 0
    /\ app_hourly = <<>>

AppNext ==
    \/ \E h \in Households, tr \in AppTranches : APP_add_vouchers(h, tr)
    \/ \E t \in AppThreads, h \in Households, m \in Merchants,
          v \in [Denoms -> 0..MaxAppCount] : APP_redeem_check(t, h, m, v)
    \/ \E t \in AppThreads : APP_redeem_load(t)
    \/ \E t \in AppThreads : APP_redeem_store(t)
    \/ \E t \in AppThreads : APP_redeem_record(t)
    \/ APP_Tick

\* How far below zero the counts of a request go below:
\* int(data["vouchers_2"]) takes any integer.
MaxAppBelowZero == 1

\* Requests served one after the other, with counts of either sign.
AppSignedNext ==
    \/ \E h \in Households, m \in Merchants,
          v \in [Denoms -> -MaxAppBelowZero..MaxAppCount] : APP_redeem_check("t1", h, m, v)
    \/ APP_redeem_load("t1")
    \/ APP_redeem_store("t1")
    \/ APP_redeem_record("t1")
    \/ APP_Tick

(***************************************************************************)
(* Claim_voucher_logic.py : VoucherClaimService.  Every call reads the     *)
(* whole households file, works on its copy and writes the whole file      *)
(* back; nothing locks the files between the read and the write.           *)
(***************************************************************************)

\* The most claim_vouchers calls followed.
MaxVcCalls == 2

VcThreads == {"c1", "c2"}
VcHouseholds == {"H1", "H2"}
VcTrancheInputs == NsTranches \cup {"Dec2024"}

VOUCHER_CONFIG ==
    [t \in NsTranches |->
        IF t = "May2025"
        THEN [total_value |-> 500, distribution |-> (2 :> 50) @@ (5 :> 20) @@ (10 :> 30)]
        ELSE [total_value |-> 300, distribution |-> (2 :> 30) @@ (5 :> 12) @@ (10 :> 15)]]

\* claim_voucher_cdc_system.create_test_household: the new household entry
VcNewHousehold ==
    [vouchers |-> [t \in NsTranches |->
                      [claimed |-> FALSE, details |-> [d \in Denoms |-> 0]]],
     total_balance |-> 0]

\* VoucherClaimService._update_total_balance
update_total_balance(household) ==
    [household EXCEPT
        !.total_balance = TotalOf(household.vouchers["May2025"].details)
                          + TotalOf(household.vouchers["Jan2026"].details)]

\* VoucherClaimService.claim_vouchers, l.105-115: the household after the
\* distribution is added and the tranche marked as claimed
VcClaimed(household, tranche) ==
    update_total_balance(
        [household EXCEPT
            !.vouchers[tranche].details =
                [d \in Denoms |-> @[d] + VOUCHER_CONFIG[tranche].distribution[d]],
            !.vouchers[tranche].claimed = TRUE])

VcIdle(ret) ==
    [pc |-> "idle", household_id |-> "", tranche |-> "", data |-> <<>>,
     transactions |-> <<>>, success |-> FALSE, ret |-> ret]

VcNoRet == [household_id |-> "", tranche |-> "", success |-> FALSE]

\* claim_voucher_cdc_system.create_test_household
VC_create_test_household(h) ==
    /\ h \notin DOMAIN vc_households_file
    /\ vc_households_file' = (h :> VcNewHousehold) @@ vc_households_file
    /\ UNCHANGED <<vc_transactions_file, vc_threads, vc_ncalls>>
    /\ VcFrame

\* VoucherClaimService.claim_vouchers, l.86-88: the call and its tranche check
VC_claim_begin(t, h, tranche) ==
    /\ vc_threads[t].pc = "idle"
    /\ vc_ncalls < MaxVcCalls
    /\ vc_ncalls' = vc_ncalls + 1
    /\ vc_threads' =
          [vc_threads EXCEPT
              ![t] = [VcIdle(VcNoRet) EXCEPT
                         !.pc = IF tranche \in DOMAIN VOUCHER_CONFIG THEN "load"
                                ELSE "record_read",
                         !.household_id = h, !.tranche = tranche]]
    /\ UNCHANGED <<vc_households_file, vc_transactions_file>>
    /\ VcFrame

\* VoucherClaimService.claim_vouchers, l.91-115: load_households, the checks
\* and the update of the loaded copy
VC_claim_load(t) ==
    /\ vc_threads[t].pc = "load"
    /\ LET th == vc_threads[t]
           data == vc_households_file
       IN vc_threads' =
             [vc_threads EXCEPT
                 ![t] = IF \/ th.household_id \notin DOMAIN data
                           \/ data[th.household_id].vouchers[th.tranche].claimed
                        THEN [th EXCEPT !.pc = "record_read"]
                        ELSE [th EXCEPT
                                 !.pc = "save",
                                 !.data = [data EXCEPT
                                              ![th.household_id] =
                                                  VcClaimed(@, th.tranche)]]]
    /\ UNCHANGED <<vc_households_file, vc_transactions_file, vc_ncalls>>
    /\ VcFrame

\* VoucherClaimService.claim_vouchers, l.118-119: save_households(data)
VC_claim_save(t) ==
    /\ vc_threads[t].pc = "save"
    /\ vc_households_file' = vc_threads[t].data
    /\ vc_threads' = [vc_threads EXCEPT ![t].pc = "record_read",
                                        ![t].success = TRUE,
                                        ![t].data = <<>>]
    /\ UNCHANGED <<vc_transactions_file, vc_ncalls>>
    /\ VcFrame

\* VoucherClaimService.record_transaction, l.58-59: the read of the log
VC_record_read(t) ==
    /\ vc_threads[t].pc = "record_read"
    /\ vc_threads' = [vc_threads EXCEPT ![t].pc = "record_write",
                                        ![t].transactions = vc_transactions_file]
    /\ UNCHANGED <<vc_households_file, vc_transactions_file, vc_ncalls>>
    /\ VcFrame

\* VoucherClaimService.record_transaction, l.61-73: the write of the log,
\* and the return of claim_vouchers
VC_record_write(t) ==
    /\ vc_threads[t].pc = "record_write"
    /\ LET th == vc_threads[t]
           transaction == [household_id |-> th.household_id, tranche |-> th.tranche,
                           success |-> th.success]
       IN /\ vc_transactions_file' = Append(th.transactions, transaction)
          /\ vc_threads' = [vc_threads EXCEPT ![t] = VcIdle(transaction)]
    /\ UNCHANGED <<vc_households_file, vc_ncalls>>
    /\ VcFrame

\* VoucherClaimService._initialize_files
VcInit ==
    /\ vc_households_file = <<>>
    /\ vc_transactions_file = <<>>
    /\ vc_threads = [t \in VcThreads |-> VcIdle(VcNoRet)]
    /\ vc_ncalls = 0

VcNext ==
    \/ \E h \in VcHouseholds : VC_create_test_household(h)
    \/ \E t \in VcThreads, h \in VcHouseholds, tr \in VcTrancheInputs :
          VC_claim_begin(t, h, tr)
    \/ \E t \in VcThreads : VC_claim_load(t)
    \/ \E t \in VcThreads : VC_claim_save(t)
    \/ \E t \in VcThreads : VC_record_read(t)
    \/ \E t \in VcThreads : VC_record_write(t)

(***************************************************************************)
(* cdc_mobile_app2.py : suggest_balanced_combo                             *)
(***************************************************************************)

\* The largest count of one denomination and the largest target tried.
MaxComboCount == 4
MaxComboTarget == 25

\* best_score starts at (10**9, 10**9, 10**9)
ComboSentinel == 1000000000

ComboCount(used) == used[10] + used[5] + used[2]

\* _imbalance_score, squared and exact: the squared L2 distance between the
\* share vectors as the fraction num / den.  math.sqrt is increasing, so the
\* order of two scores is the order of their squares.
imbalance_score(original_counts, remaining_counts) ==
    LET t0 == ComboCount(original_counts)
        t1 == ComboCount(remaining_counts)
        Sq(x) == x * x
    IN IF t0 <= 0 /\ t1 <= 0 THEN [num |-> 0, den |-> 1]
       ELSE IF t0 <= 0
       THEN [num |-> Sq(remaining_counts[10]) + Sq(remaining_counts[5])
                     + Sq(remaining_counts[2]),
             den |-> Sq(t1)]
       ELSE IF t1 <= 0
       THEN [num |-> Sq(original_counts[10]) + Sq(original_counts[5])
                     + Sq(original_counts[2]),
             den |-> Sq(t0)]
       ELSE [num |-> Sq(original_counts[10] * t1 - remaining_counts[10] * t0)
                     + Sq(original_counts[5] * t1 - remaining_counts[5] * t0)
                     + Sq(original_counts[2] * t1 - remaining_counts[2] * t0),
             den |-> Sq(t0 * t1)]

\* A comparison that looks at the number of vouchers before the leftover
ComboScoreLessCountFirst(a, b) ==
    \/ a.count < b.count
    \/ /\ a.count = b.count
       /\ \/ a.leftover < b.leftover
          \/ /\ a.leftover = b.leftover
             /\ a.imbalance.num * b.imbalance.den < b.imbalance.num * a.imbalance.den

\* A comparison that leaves the number of vouchers out
ComboScoreLessNoCount(a, b) ==
    \/ a.leftover < b.leftover
    \/ /\ a.leftover = b.leftover
       /\ a.imbalance.num * b.imbalance.den < b.imbalance.num * a.imbalance.den

\* A comparison on the leftover alone
ComboScoreLessLeftoverOnly(a, b) ==
    a.leftover < b.leftover

\* score < best_score on the tuples (leftover, vouchers used, imbalance)
ComboScoreLess(a, b) ==
    \/ a.leftover < b.leftover
    \/ /\ a.leftover = b.leftover
       /\ \/ a.count < b.count
          \/ /\ a.count = b.count
             /\ a.imbalance.num * b.imbalance.den < b.imbalance.num * a.imbalance.den

\* A loop body that does not skip the empty combination
ComboConsiderZero(cap_target, orig, c10, c5, c2, best) ==
    LET achieved == 10 * c10 + 5 * c5 + 2 * c2
        used == (10 :> c10) @@ (5 :> c5) @@ (2 :> c2)
        remaining == [d \in Denoms |-> orig[d] - used[d]]
        score == [leftover |-> cap_target - achieved,
                  count |-> c10 + c5 + c2,
                  imbalance |-> imbalance_score(orig, remaining)]
    IN IF ComboScoreLess(score, best.score)
       THEN [found |-> TRUE, used |-> used, amount |-> achieved, score |-> score]
       ELSE best

\* suggest_balanced_combo, the body of the innermost loop
ComboConsider(cap_target, orig, c10, c5, c2, best) ==
    LET achieved == 10 * c10 + 5 * c5 + 2 * c2
        used == (10 :> c10) @@ (5 :> c5) @@ (2 :> c2)
        remaining == [d \in Denoms |-> orig[d] - used[d]]
        score == [leftover |-> cap_target - achieved,
                  count |-> c10 + c5 + c2,
                  imbalance |-> imbalance_score(orig, remaining)]
    IN IF achieved <= 0 THEN best
       ELSE IF ComboScoreLess(score, best.score)
       THEN [found |-> TRUE, used |-> used, amount |-> achieved, score |-> score]
       ELSE best

\* for c2 in range(max2 + 1).  In the three loops the test on next.amount,
\* which is never negative, only has TLC evaluate one iteration before it
\* goes on to the next.
RECURSIVE ComboLoop2(_, _, _, _, _, _, _)
ComboLoop2(cap_target, orig, c10, c5, c2, max2, best) ==
    IF c2 > max2 THEN best
    ELSE LET next == ComboConsider(cap_target, orig, c10, c5, c2, best)
         IN IF next.amount >= 0
            THEN ComboLoop2(cap_target, orig, c10, c5, c2 + 1, max2, next)
            ELSE next

\* A loop over c5 whose inner bound leaves the available $2 vouchers out
RECURSIVE ComboLoop5Unbounded(_, _, _, _, _, _)
ComboLoop5Unbounded(cap_target, orig, c10, c5, max5, best) ==
    IF c5 > max5 THEN best
    ELSE LET remaining_after_5 == cap_target - 10 * c10 - 5 * c5
             max2 == remaining_after_5 \div 2
             next == ComboLoop2(cap_target, orig, c10, c5, 0, max2, best)
         IN IF next.amount >= 0
            THEN ComboLoop5Unbounded(cap_target, orig, c10, c5 + 1, max5, next)
            ELSE next

\* for c5 in range(max5 + 1)
RECURSIVE ComboLoop5(_, _, _, _, _, _)
ComboLoop5(cap_target, orig, c10, c5, max5, best) ==
    IF c5 > max5 THEN best
    ELSE LET remaining_after_5 == cap_target - 10 * c10 - 5 * c5
             max2 == Min(orig[2], remaining_after_5 \div 2)
             next == ComboLoop2(cap_target, orig, c10, c5, 0, max2, best)
         IN IF next.amount >= 0
            THEN ComboLoop5(cap_target, orig, c10, c5 + 1, max5, next)
            ELSE next

\* for c10 in range(max10 + 1)
RECURSIVE ComboLoop10(_, _, _, _, _)
ComboLoop10(cap_target, orig, c10, max10, best) ==
    IF c10 > max10 THEN best
    ELSE LET remaining_after_10 == cap_target - 10 * c10
             max5 == Min(orig[5], remaining_after_10 \div 5)
             next == ComboLoop5(cap_target, orig, c10, 0, max5, best)
         IN IF next.amount >= 0
            THEN ComboLoop10(cap_target, orig, c10 + 1, max10, next)
            ELSE next

ComboNone == [found |-> FALSE, used |-> [d \in Denoms |-> 0], amount |-> 0]

\* suggest_balanced_combo
suggest_balanced_combo(target_amount, available_counts) ==
    IF target_amount <= 0 THEN ComboNone
    ELSE LET max_spendable == TotalOf(available_counts)
             cap_target == Min(target_amount, max_spendable)
             start == [found |-> FALSE, used |-> [d \in Denoms |-> 0], amount |-> 0,
                       score |-> [leftover |-> ComboSentinel, count |-> ComboSentinel,
                                  imbalance |-> [num |-> ComboSentinel, den |-> 1]]]
             best == ComboLoop10(cap_target, available_counts, 0,
                                 Min(available_counts[10], cap_target \div 10), start)
         IN [found |-> best.found, used |-> best.used, amount |-> best.amount]

\* One call with the inputs of the state
COMBO_suggest ==
    /\ combo_pc = "input"
    /\ combo_result' = suggest_balanced_combo(combo_target, combo_available)
    /\ combo_pc' = "done"
    /\ UNCHANGED <<combo_target, combo_available>>
    /\ ComboFrame

\* No call under way
ComboIdle ==
    /\ combo_target = 0
    /\ combo_available = [d \in Denoms |-> 0]
    /\ combo_pc = "input"
    /\ combo_result = ComboNone

\* The inputs of a call: any target and any counts within the bounds
ComboInit ==
    /\ combo_target \in -1..MaxComboTarget
    /\ combo_available \in [Denoms -> 0..MaxComboCount]
    /\ combo_pc = "input"
    /\ combo_result = ComboNone

ComboNext == COMBO_suggest

\* Counts and targets at which two combinations of one value use the same
\* number of vouchers: 3 x $10 + 5 x $2 and 8 x $5 are both 40 in 8 vouchers,
\* and no smaller counts give such a pair.
MaxWide10 == 3
MaxWide5 == 8
MaxWide2 == 5
MinWideTarget == 38
MaxWideTarget == 41

ComboWideAll ==
    {f \in [Denoms -> 0..MaxWide5] : f[10] <= MaxWide10 /\ f[2] <= MaxWide2}

\* The inputs of a call with the larger counts
ComboWideInit ==
    /\ combo_target \in MinWideTarget..MaxWideTarget
    /\ combo_available \in ComboWideAll
    /\ combo_pc = "input"
    /\ combo_result = ComboNone

(***************************************************************************)
(* redemption.py : compile_redemptions_by_hour and _append_rows.  A run    *)
(* reads its input files, groups the rows by hour and appends each group   *)
(* to the hour's file.  services.append_csv appends in the same way.       *)
(***************************************************************************)

\* The most runs followed and the clock ticks in an hour.
MaxRedRuns == 2
RedTicksPerHour == 2

RedThreads == {"r1", "r2"}

\* The rows the input files are made of: two of one hour in two of the
\* accepted formats, one of the next hour, and one whose
\* Transaction_Date_Time is in none of the formats.
RedPool ==
    << [Transaction_ID |-> 1, Voucher_Code |-> "V1",
        Transaction_Date_Time |-> [fmt |-> "%Y-%m-%d-%H%M%S", t |-> 0]],
       [Transaction_ID |-> 2, Voucher_Code |-> "V2",
        Transaction_Date_Time |-> [fmt |-> "%Y-%m-%d %H:%M:%S", t |-> 1]],
       [Transaction_ID |-> 3, Voucher_Code |-> "V3",
        Transaction_Date_Time |-> [fmt |-> "%Y-%m-%dT%H:%M:%S", t |-> RedTicksPerHour]],
       [Transaction_ID |-> 4, Voucher_Code |-> "V4",
        Transaction_Date_Time |-> [fmt |-> "%d/%m/%Y", t |-> 0]] >>

\* _read_rows_from_csv over input_csv_paths: the rows of the chosen files
RedRead(S) ==
    LET F[i \in 0..Len(RedPool)] ==
            IF i = 0 THEN <<>>
            ELSE IF i \in S THEN Append(F[i - 1], RedPool[i]) ELSE F[i - 1]
    IN F[Len(RedPool)]

\* _parse_tx_datetime: a value in one of the three formats, or ValueError
RedParses(s) ==
    s.fmt \in {"%Y-%m-%d-%H%M%S", "%Y-%m-%d %H:%M:%S", "%Y-%m-%dT%H:%M:%S"}

\* _hour_key(_parse_tx_datetime(s))
RedHourKey(s) == s.t \div RedTicksPerHour

\* buckets.setdefault(key, []).append(row) over the rows read
RedBuckets(rows) ==
    [key \in {RedHourKey(rows[i].Transaction_Date_Time) : i \in 1..Len(rows)} |->
        LET inHour(r) == RedHourKey(r.Transaction_Date_Time) = key
        IN SelectSeq(rows, inHour)]

\* sorted(buckets.items()): the keys in ascending order
RECURSIVE RedSorted(_)
RedSorted(keys) ==
    IF keys = {} THEN <<>>
    ELSE LET k == CHOOSE x \in keys : \A y \in keys : x <= y
         IN <<k>> \o RedSorted(keys \ {k})

RedIdle(ret) ==
    [pc |-> "idle", input |-> {}, buckets |-> <<>>, keys |-> <<>>,
     file_exists |-> FALSE, before |-> <<>>, alone |-> FALSE, rerun |-> FALSE,
     ret |-> ret]

\* compile_redemptions_by_hour, l.75-85: the rows are read and grouped; a
\* Transaction_Date_Time in no known format raises before anything is
\* written.  before, alone and rerun record the files at the start of the
\* run, that no other run is under way, and that a run on this input has
\* returned.
RED_compile_begin(t, S) ==
    /\ red_threads[t].pc = "idle"
    /\ red_nruns < MaxRedRuns
    /\ red_nruns' = red_nruns + 1
    /\ LET rows == RedRead(S)
           others == [u \in RedThreads |->
                         IF u # t /\ red_threads[u].pc # "idle"
                         THEN [red_threads[u] EXCEPT !.alone = FALSE]
                         ELSE red_threads[u]]
       IN IF \E i \in 1..Len(rows) : ~RedParses(rows[i].Transaction_Date_Time)
          THEN red_threads' = [red_threads EXCEPT ![t] = RedIdle("ValueError")]
          ELSE red_threads' =
                  [others EXCEPT
                      ![t] = [RedIdle("") EXCEPT
                                 !.pc = "check",
                                 !.input = S,
                                 !.buckets = RedBuckets(rows),
                                 !.keys = RedSorted(DOMAIN RedBuckets(rows)),
                                 !.before = red_files,
                                 !.alone = \A u \in RedThreads \ {t} :
                                              red_threads[u].pc = "idle",
                                 !.rerun = S \in red_done]]
    /\ UNCHANGED <<red_files, red_done>>
    /\ RedFrame

\* _append_rows, l.56: file_exists = os.path.exists(path)
RED_append_check(t) ==
    /\ red_threads[t].pc = "check"
    /\ red_threads' =
          [red_threads EXCEPT
              ![t].file_exists = Head(red_threads[t].keys) \in DOMAIN red_files,
              ![t].pc = "open"]
    /\ UNCHANGED <<red_files, red_done, red_nruns>>
    /\ RedFrame

\* _append_rows, l.57: open(path, "a") creates the file when it is not there
RED_append_open(t) ==
    /\ red_threads[t].pc = "open"
    /\ LET key == Head(red_threads[t].keys)
       IN red_files' = IF key \in DOMAIN red_files THEN red_files
                       ELSE (key :> <<>>) @@ red_files
    /\ red_threads' = [red_threads EXCEPT ![t].pc = "write"]
    /\ UNCHANGED <<red_done, red_nruns>>
    /\ RedFrame

\* _append_rows, l.58-61: the header when the file was not there, and the
\* rows; they reach the file when it is closed.  Then the next key of the
\* loop at l.86-89, or the return.
RED_append_write(t) ==
    /\ red_threads[t].pc = "write"
    /\ LET th == red_threads[t]
           key == Head(th.keys)
           rows == th.buckets[key]
           header == [header |-> TRUE, Transaction_ID |-> 0, Voucher_Code |-> ""]
           lines == (IF th.file_exists THEN <<>> ELSE <<header>>)
                    \o [i \in 1..Len(rows) |->
                           [header |-> FALSE,
                            Transaction_ID |-> rows[i].Transaction_ID,
                            Voucher_Code |-> rows[i].Voucher_Code]]
       IN /\ red_files' = [red_files EXCEPT ![key] = @ \o lines]
          /\ IF Len(th.keys) > 1
             THEN /\ red_threads' = [red_threads EXCEPT ![t].keys = Tail(th.keys),
                                                       ![t].pc = "check"]
                  /\ UNCHANGED red_done
             ELSE /\ red_threads' = [red_threads EXCEPT ![t] = RedIdle("written")]
                  /\ red_done' = red_done \cup {th.input}
    /\ UNCHANGED red_nruns
    /\ RedFrame

\* An empty output directory
RedInit ==
    /\ red_files = <<>>
    /\ red_threads = [t \in RedThreads |-> RedIdle("")]
    /\ red_done = {}
    /\ red_nruns = 0

RedNext ==
    \/ \E t \in RedThreads, S \in (SUBSET (1..Len(RedPool))) \ {{}} :
          RED_compile_begin(t, S)
    \/ \E t \in RedThreads : RED_append_check(t)
    \/ \E t \in RedThreads : RED_append_open(t)
    \/ \E t \in RedThreads : RED_append_write(t)

(***************************************************************************)
(* Specifications                                                          *)
(***************************************************************************)
BaseInit ==
    /\ CDCInit /\ NSInit /\ SrvInit /\ SvInit /\ S2Init /\ AppInit /\ VcInit
    /\ RedInit

Init == BaseInit /\ ComboIdle

\* cdc_classes.py
Spec == Init /\ [][CDCNext]_vars

\* new_services.py
SpecNS == Init /\ [][NSNext]_vars

\* server.py
SpecSrv == Init /\ [][SrvNext]_vars

\* services.py
SpecSv == Init /\ [][SvNext]_vars

\* services2.py
SpecS2 == Init /\ [][S2Next]_vars

\* app.py
SpecApp == Init /\ [][AppNext]_vars

\* Claim_voucher_logic.py
SpecVc == Init /\ [][VcNext]_vars

\* cdc_mobile_app2.py: suggest_balanced_combo on every input within the bounds
ComboSpecInit == BaseInit /\ ComboInit
SpecCombo == ComboSpecInit /\ [][ComboNext]_vars

\* cdc_mobile_app2.py: suggest_balanced_combo with the larger counts
ComboWideSpecInit == BaseInit /\ ComboWideInit
SpecComboWide == ComboWideSpecInit /\ [][ComboNext]_vars

\* redemption.py
SpecRed == Init /\ [][RedNext]_vars

\* server.py: redemptions against every small balance
SrvWideSpecInit ==
    /\ CDCInit /\ NSInit /\ SrvWideInit /\ SvInit /\ S2Init /\ AppInit /\ VcInit
    /\ RedInit /\ ComboIdle
SpecSrvWide == SrvWideSpecInit /\ [][SrvWideNext]_vars

\* app.py: sequential requests with counts of either sign
SpecAppSigned == Init /\ [][AppSignedNext]_vars

\* services2.py with process restarts
SpecS2Restart == Init /\ [][S2RestartNext]_vars

\* cdc_classes.py, two households
SpecCdcTwo == Init /\ [][CDCTwoNext]_vars

(***************************************************************************)
(* Properties                                                              *)
(***************************************************************************)

RECURSIVE SumSet(_, _)
SumSet(f, S) ==
    IF S = {} THEN 0
    ELSE LET x == CHOOSE y \in S : TRUE IN f[x] + SumSet(f, S \ {x})

\* C1: in CDCSystem the cached household_balance_index[h] is, in every state,
\* the sum of the denominations of the active vouchers of household h.
C1_CachedBalanceIsActiveSum ==
    \A h \in DOMAIN cdc_households :
        household_balance_index[h] = Household_get_total_balance(cdc_households[h])

\* C2: in CDCSystem a claim of a tranche the household already holds is
\* rejected and leaves the household's vouchers and cached balance unchanged.
C2_RepeatClaimRejected ==
    [][\A h \in Households, t \in CdcTranches :
          (/\ h \in DOMAIN cdc_households
           /\ t \in TrancheKeys(cdc_households[h])
           /\ CDC_claim_vouchers(h, t))
          => /\ ~cdc_ret'.ok
             /\ cdc_households'[h] = cdc_households[h]
             /\ household_balance_index'[h] = household_balance_index[h]]_vars

\* The value of the vouchers a step takes out of the HouseholdIndex
NsRemovedValue ==
    SumSet([v \in DOMAIN voucher_map |-> voucher_map[v].denomination],
           DOMAIN voucher_map \ DOMAIN voucher_map')

C4_FailedVerifyKeepsCounts ==
    [][\A m \in Merchants, c \in 1..MaxSrvCodes :
          (SRV_verify_redemption(m, c) /\ ~srv_ret'.ok)
          => srv_vouchers' = srv_vouchers]_vars

\* C5: services.redeem with explicit voucher_ids is all-or-nothing: when a
\* supplied id is not a voucher the household holds, the call fails, no
\* voucher leaves the household and no audit row is recorded.
C5_ExplicitIdsAllOrNothing ==
    [][\A h \in Households, ids \in SeqsUpTo(SvIdInputs, MaxSvRequest) :
          (/\ SV_redeem(h, ids, <<>>)
           /\ \E i \in 1..Len(ids) :
                 \A k \in 1..Len(SvBucket(h)) : SvBucket(h)[k].voucher_id # ids[i])
          => /\ ~sv_ret'.ok
             /\ vouchers_by_household' = vouchers_by_household
             /\ sv_rows' = sv_rows]_vars

\* Some requested count exceeds the household's active vouchers of that
\* denomination in the tranche
S2Exceeds(h, tranche, denominations) ==
    /\ h \in DOMAIN s2_households
    /\ tranche \in DOMAIN s2_households[h]
    /\ \E i \in 1..Len(denominations) :
          denominations[i].count >
             Len(S2Available(s2_households[h][tranche], denominations[i].denomination))

\* C6: a services2.redeem whose request asks, for some denomination, more
\* than the tranche's active vouchers of it fails; no voucher changes status,
\* tx.vouchers_used is as the caller passed it and redemptions_by_hour gets
\* nothing.
C6_ShortRequestChangesNothing ==
    [][\A h \in Households, t \in S2Tranches, r \in S2Requests :
          (/\ s2_last'.tranche = t /\ s2_last'.denominations = r
           /\ S2Exceeds(h, t, r)
           /\ S2_redeem(h, t, r))
          => /\ s2_last'.err = "Insufficient"
             /\ s2_households' = s2_households
             /\ s2_tx'.vouchers_used = S2NewTx.vouchers_used
             /\ s2_redemptions' = s2_redemptions
             /\ s2_file' = s2_file]_vars

\* C6 witness: a redeem has just raised "Insufficient" on a later
\* denomination after the first one, asked with a count of at least 1, had
\* passed its check, in a store that already holds a redemption.
C6_Witness ==
    /\ s2_last.op = "redeem"
    /\ s2_last.err = "Insufficient"
    /\ s2_last.denominations[1].count >= 1
    /\ \E h \in DOMAIN s2_households :
          /\ s2_last.tranche \in DOMAIN s2_households[h]
          /\ Len(S2Available(s2_households[h][s2_last.tranche],
                             s2_last.denominations[1].denomination))
                >= s2_last.denominations[1].count
    /\ s2_redemptions # <<>>

\* Vouchers of denomination d the household was allocated, and vouchers of d
\* the recorded transactions redeemed
AppGranted(h, d) ==
    LET tr == app_households[h].claimed_tranches
    IN SumSeq([i \in 1..Len(tr) |-> AppAdded(tr[i])[d]])

AppRedeemed(h, d) ==
    SumSet([s \in DOMAIN app_transactions |->
               IF app_transactions[s].household_id = h
               THEN app_transactions[s].vouchers[d] ELSE 0],
           DOMAIN app_transactions)

\* C7: with two request threads inside InMemoryStore.redeem_vouchers in any
\* interleaving, no balance of a household is ever negative and the recorded
\* redemptions never exceed the vouchers the household held.
C7_NoOverselling ==
    \A h \in DOMAIN app_households : \A d \in Denoms :
        /\ app_households[h].balance[d] >= 0
        /\ AppRedeemed(h, d) <= AppGranted(h, d)

\* C8: of two concurrent VoucherClaimService.claim_vouchers calls for the
\* same household and tranche, at most one returns success.
C8_AtMostOneClaimSucceeds ==
    \A t1, t2 \in VcThreads :
        (/\ t1 # t2
         /\ vc_threads[t1].ret.success
         /\ vc_threads[t2].ret.success
         /\ vc_threads[t1].ret.household_id = vc_threads[t2].ret.household_id)
        => vc_threads[t1].ret.tranche # vc_threads[t2].ret.tranche

\* The combinations within the available counts, and their values
ComboAll == [Denoms -> 0..MaxComboCount]
ComboWithin(c) == \A d \in Denoms : c[d] <= combo_available[d]
ComboCap == Min(combo_target, TotalOf(combo_available))

\* C9: for a target > 0 the amount suggest_balanced_combo returns is the
\* largest value of a combination within the available counts that does not
\* exceed min(target, max_spendable).
C9_AmountIsMaxAchievable ==
    (combo_pc = "done" /\ combo_target > 0)
    => /\ \E c \in ComboAll :
             ComboWithin(c) /\ TotalOf(c) = combo_result.amount
       /\ combo_result.amount <= ComboCap
       /\ \A c \in ComboAll :
             (ComboWithin(c) /\ TotalOf(c) <= ComboCap)
             => TotalOf(c) <= combo_result.amount

\* C9 witness: target 23 is met exactly (10 + 5 + 4 x 2); taking the largest
\* denominations first would stop at 22.
C9_Witness ==
    /\ combo_pc = "done"
    /\ combo_target = 23
    /\ combo_available = [d \in Denoms |-> MaxComboCount]
    /\ combo_result.amount = 23

\* C10: the returned combination uses the fewest vouchers among the
\* combinations within the available counts that achieve the returned amount.
C10_FewestVouchers ==
    (combo_pc = "done" /\ combo_result.found)
    => \A c \in ComboAll :
          (ComboWithin(c) /\ TotalOf(c) = combo_result.amount)
          => ComboCount(combo_result.used) <= ComboCount(c)

\* C10 witness: 10 can be paid with one $10 or with two $5; the call
\* returned the single $10.
C10_Witness ==
    /\ combo_pc = "done"
    /\ combo_target = 10
    /\ combo_available = [d \in Denoms |-> MaxComboCount]
    /\ combo_result.found
    /\ combo_result.used = (10 :> 1) @@ (5 :> 0) @@ (2 :> 0)

\* The vouchers left after a combination, and the order of two combinations
\* by the distance of what they leave from the original mix
ComboRemaining(c) == [d \in Denoms |-> combo_available[d] - c[d]]
ComboImbalanceLeq(c1, c2) ==
    LET a == imbalance_score(combo_available, ComboRemaining(c1))
        b == imbalance_score(combo_available, ComboRemaining(c2))
    IN a.num * b.den <= b.num * a.den

\* The combinations within the available counts that have the returned amount
ComboSameAmount ==
    {c \in ComboWideAll : ComboWithin(c) /\ TotalOf(c) = combo_result.amount}

C12_NoneIffInfeasible ==
    combo_pc = "done"
    => /\ (combo_result = ComboNone)
          <=> ~ \E c \in ComboAll :
                  /\ ComboWithin(c)
                  /\ 0 < TotalOf(c)
                  /\ TotalOf(c) <= combo_target
       /\ combo_result.found
          => (0 < combo_result.amount /\ combo_result.amount <= combo_target)

\* C12 witness: target 1 against a full balance is reported infeasible.
C12_Witness ==
    /\ combo_pc = "done"
    /\ combo_target = 1
    /\ combo_available = [d \in Denoms |-> MaxComboCount]
    /\ combo_result = ComboNone

\* C13: a returned combination uses between 0 and the available number of
\* vouchers of each denomination, and its amount is
\* 10 * used[10] + 5 * used[5] + 2 * used[2].
C13_UsedWithinAvailable ==
    (combo_pc = "done" /\ combo_result.found)
    => /\ \A d \in Denoms :
             0 <= combo_result.used[d] /\ combo_result.used[d] <= combo_available[d]
       /\ combo_result.amount = 10 * combo_result.used[10]
                                + 5 * combo_result.used[5]
                                + 2 * combo_result.used[2]

\* C13 witness: the target is above the whole balance of 23 and the call
\* returned every available voucher.
C13_Witness ==
    /\ combo_pc = "done"
    /\ combo_target = MaxComboTarget
    /\ combo_available = (10 :> 1) @@ (5 :> 1) @@ (2 :> 4)
    /\ combo_result.found
    /\ combo_result.used = combo_available
    /\ combo_result.amount = 23

\* The rows a services.redeem step added, and the vouchers of a denomination
\* it took out of the household's bucket
SvNewRows == SubSeq(sv_rows', Len(sv_rows) + 1, Len(sv_rows'))
SvRedeemedOf(h, d) ==
    LET after == {SvBucket(h)'[k].voucher_id : k \in 1..Len(SvBucket(h)')}
    IN {k \in 1..Len(SvBucket(h)) :
           /\ SvBucket(h)[k].denomination = d
           /\ SvBucket(h)[k].voucher_id \notin after}

\* C14: in a services.redeem transaction the rows of a denomination group of
\* N >= 1 redeemed vouchers carry the remarks "1" .. "N-1" in order and then
\* one row "Final denomination used".
C14_RemarksNumberEachGroup ==
    [][\A h \in Households, d \in Denoms :
          (/\ sv_ntx' = sv_ntx + 1
           /\ SvRedeemedOf(h, d) # {})
          => LET N == Cardinality(SvRedeemedOf(h, d))
                 ofDenom(r) == r.Household_ID = h /\ r.Denomination_Used = d
                 group == SelectSeq(SvNewRows, ofDenom)
             IN [i \in 1..Len(group) |-> group[i].Remarks]
                = [i \in 1..N |-> IF i < N THEN ToString(i)
                                  ELSE "Final denomination used"]]_vars

\* The rows an app.py redeem_vouchers call added to the hourly file
AppNewRows == SubSeq(app_hourly', Len(app_hourly) + 1, Len(app_hourly'))

\* C15: when an app.py redeem_vouchers call commits N >= 1 vouchers of one
\* denomination, the rows written for that denomination carry the remarks
\* "1" .. "N-1" in order and one row "Final denomination used".
C15_HourlyRemarksPerGroup ==
    [][\A t \in AppThreads, d \in Denoms :
          (/\ app_threads[t].pc = "record"
           /\ app_threads'[t].pc = "idle"
           /\ app_threads[t].vouchers[d] >= 1)
          => LET N == app_threads[t].vouchers[d]
                 ofDenom(r) == r.Denomination_Used = d
                 group == SelectSeq(AppNewRows, ofDenom)
             IN [i \in 1..Len(group) |-> group[i].Remarks]
                = [i \in 1..N |-> IF i < N THEN ToString(i)
                                  ELSE "Final denomination used"]]_vars

C17_SecondRunChangesNothing ==
    [][\A t \in RedThreads :
          (/\ red_threads[t].pc = "write"
           /\ red_threads'[t].pc = "idle"
           /\ red_threads[t].rerun
           /\ red_threads[t].alone)
          => red_files' = red_threads[t].before]_vars

\* C18: when no writer is under way every hourly file has exactly one header
\* line, and it is the first line.
C18_OneHeaderFirst ==
    (\A t \in RedThreads : red_threads[t].pc = "idle")
    => \A key \in DOMAIN red_files :
          \A i \in 1..Len(red_files[key]) : red_files[key][i].header <=> (i = 1)

\* C19: in CDCSystem a voucher's status changes only active -> used, in a
\* redeem_vouchers call, or active -> expired, in a refresh_vouchers_status
\* call made after its expiry date; a used or expired voucher keeps its
\* status, and a used voucher is never marked expired.
C19_StatusOnlyLeavesActive ==
    [][\A h \in DOMAIN cdc_households \cap DOMAIN cdc_households' :
         LET before == cdc_households[h].vouchers
             after == cdc_households'[h].vouchers
         IN \A k \in 1..Len(before) :
               k <= Len(after) =>
                 \A j \in 1..Len(before[k].list) :
                    j <= Len(after[k].list) =>
                      LET s == before[k].list[j].status
                          t == after[k].list[j].status
                      IN \/ s = t
                         \/ /\ s = "active"
                            /\ t = "used"
                            /\ cdc_nredeems' = cdc_nredeems + 1
                            /\ cdc_ret'.op = "redeem_vouchers"
                         \/ /\ s = "active"
                            /\ t = "expired"
                            /\ DateOf(cdc_now) > before[k].list[j].expiry_date
                            /\ UNCHANGED <<cdc_nredeems, cdc_nclaims, cdc_ret>>]_vars

\* A household holds a used voucher whose expiry date has passed next to an
\* expired voucher of the same tranche, so a sweep ran after the expiry date.
C19_Witness ==
    \E h \in DOMAIN cdc_households :
       \E i, j \in 1..Len(AllVouchers(cdc_households[h])) :
          /\ AllVouchers(cdc_households[h])[i].status = "used"
          /\ AllVouchers(cdc_households[h])[j].status = "expired"
          /\ AllVouchers(cdc_households[h])[i].tranche =
                AllVouchers(cdc_households[h])[j].tranche
          /\ DateOf(cdc_now) > AllVouchers(cdc_households[h])[i].expiry_date

\* C20: a successful VoucherClaimService.claim_vouchers(h, t) raises the
\* household's total_balance by VOUCHER_CONFIG[t]['total_value'], that value
\* is the sum of denomination x count over the tranche's distribution, and
\* the balance the call saves and returns is the old balance plus that value.
C20_ClaimAddsConfiguredFaceValue ==
    [][\A t \in VcThreads :
          (vc_threads[t].pc = "load" /\ vc_threads'[t].pc = "save") =>
             LET h == vc_threads[t].household_id
                 tranche == vc_threads[t].tranche
                 total_value == VOUCHER_CONFIG[tranche].total_value
             IN /\ total_value = TotalOf(VOUCHER_CONFIG[tranche].distribution)
                /\ vc_threads'[t].data[h].total_balance =
                      vc_households_file[h].total_balance + total_value]_vars

\* C21: a services.redeem call consumes only vouchers that were in the
\* household's bucket, writes exactly one row per voucher it removes, and
\* the Amount_Redeemed of the rows of a denomination is that denomination
\* times the number of vouchers of it removed from the household.
C21_OneRowPerVoucherRemoved ==
    [][\A h \in Households :
          (sv_ntx' = sv_ntx + 1 /\ h \in sv_households)
          => LET mine(r) == r.Household_ID = h
                 rows == SelectSeq(SvNewRows, mine)
                 held == {SvBucket(h)[k].voucher_id : k \in 1..Len(SvBucket(h))}
             IN /\ \A i \in 1..Len(rows) : rows[i].Voucher_ID \in held
                /\ \A d \in Denoms :
                      LET ofDenom(r) == r.Denomination_Used = d
                          group == SelectSeq(rows, ofDenom)
                          removed == Cardinality(SvRedeemedOf(h, d))
                      IN /\ Len(group) = removed
                         /\ \A i \in 1..Len(group) :
                               group[i].Amount_Redeemed = d * removed]_vars

\* C22: in CDCSystem no two vouchers of the system, of the same or of
\* different households, carry the same voucher_code.
C22_VoucherCodesUnique ==
    \A h1, h2 \in DOMAIN cdc_households :
       \A i \in 1..Len(AllVouchers(cdc_households[h1])) :
          \A j \in 1..Len(AllVouchers(cdc_households[h2])) :
             (AllVouchers(cdc_households[h1])[i].voucher_code =
                 AllVouchers(cdc_households[h2])[j].voucher_code)
             => (h1 = h2 /\ i = j)

\* C23: the hourly audit file of services2 is append-only: the rows it holds
\* before a step are still there, in place, after the step, also when the
\* step is a redeem of the same hour that follows a restart.
C23_HourlyFileAppendOnly ==
    [][/\ Len(s2_file') >= Len(s2_file)
       /\ SubSeq(s2_file', 1, Len(s2_file)) = s2_file]_vars

\* C24: when two concurrent VoucherClaimService.claim_vouchers calls by two
\* different households have both returned success, households.json records
\* both households as claimed, with the vouchers of the tranche and the
\* balance they give.
C24_BothClaimsKept ==
    \A t, u \in VcThreads :
       (/\ t # u
        /\ vc_threads[t].pc = "idle" /\ vc_threads[u].pc = "idle"
        /\ vc_threads[t].ret.success /\ vc_threads[u].ret.success
        /\ vc_threads[t].ret.household_id # vc_threads[u].ret.household_id)
       => LET h == vc_threads[t].ret.household_id
              tranche == vc_threads[t].ret.tranche
              saved == vc_households_file[h]
          IN /\ saved.vouchers[tranche].claimed
             /\ saved.vouchers[tranche].details = VOUCHER_CONFIG[tranche].distribution
             /\ saved.total_balance = TotalOf(VOUCHER_CONFIG[tranche].distribution)

\* Some vouchers of the balance sum exactly to the amount
SrvExactExists(balance, amount) ==
    \E c \in [Denoms -> 0..MaxSrvWideCount] :
       /\ \A d \in Denoms : c[d] <= balance[d]
       /\ TotalOf(c) = amount

\* C25: server.create_redemption, for a registered household and merchant,
\* creates a pending transaction whose redemption_details sum to the amount
\* whenever some of the household's vouchers sum exactly to the amount; it
\* answers 'Cannot redeem exact amount' only when no combination does.
C25_ExactAmountFoundWhenItExists ==
    [][\A h \in Households, m \in Merchants, a \in 0..MaxSrvAmount :
          (/\ srv_ret'.op = "create_redemption"
           /\ h \in DOMAIN srv_households
           /\ m \in srv_merchants
           /\ SrvExactExists(srv_vouchers[h], a)
           /\ SRV_create_redemption(h, m, a))
          => /\ srv_ret'.ok
             /\ Len(srv_codes') = Len(srv_codes) + 1
             /\ LET transaction == srv_codes'[Len(srv_codes')]
                    details == transaction.redemption_details
                IN /\ transaction.status = "pending"
                   /\ transaction.amount = a
                   /\ SumSeq([k \in 1..Len(details) |->
                                 details[k].denom * details[k].count]) = a]_vars

\* C26: a successful CDCSystem.redeem_vouchers for the request {d: count}
\* marks exactly count active vouchers of each requested denomination as
\* used, count 0 included, and none of any other denomination, and its
\* total_amount is the sum of d x count.
C26_MarksExactlyRequestedCounts ==
    [][\A h \in Households, m \in Merchants, r \in DenomRequests(0, MaxReqCount) :
          (/\ cdc_nredeems' = cdc_nredeems + 1
           /\ cdc_ret'.ok
           /\ CDC_redeem_vouchers(h, m, r))
          => LET used == NewlyUsed(cdc_households[h], cdc_households'[h])
                 asked(d) == IF d \in DOMAIN r THEN r[d] ELSE 0
             IN /\ \A d \in Denoms :
                      Cardinality({i \in used :
                          AllVouchers(cdc_households[h])[i].denomination = d})
                         = asked(d)
                /\ cdc_ret'.amount = 2 * asked(2) + 5 * asked(5) + 10 * asked(10)]_vars

\* C27: InMemoryStore.redeem_vouchers never raises a household's holdings,
\* whatever integers it is given: no step of a call leaves balance_2,
\* balance_5 or balance_10 above its value before, and no recorded
\* transaction has a negative amount.
C27_RedeemNeverAddsVouchers ==
    [][/\ \A h \in DOMAIN app_households : \A d \in Denoms :
             app_households'[h].balance[d] <= app_households[h].balance[d]
       /\ \A s \in DOMAIN app_transactions' : app_transactions'[s].amount >= 0]_vars

\* C28: every successful redeem_vouchers call adds a record of its own: the
\* transactions store of CDCSystem holds as many entries as there were
\* successful redemptions, also when two of them fall in the same second.
C28_OneRecordPerRedemption ==
    Cardinality(DOMAIN cdc_transactions) = cdc_nredeems

\* C29: CDCSystem.redeem_vouchers never marks as used a voucher whose
\* expiry date lies before the current date, whether or not
\* refresh_vouchers_status has run since that date passed.
C29_NoExpiredVoucherRedeemed ==
    [][\A h \in DOMAIN cdc_households :
          (cdc_nredeems' = cdc_nredeems + 1)
          => \A i \in NewlyUsed(cdc_households[h], cdc_households'[h]) :
                ~(DateOf(cdc_now) > AllVouchers(cdc_households[h])[i].expiry_date)]_vars

\* The codes a step turns from pending to completed
SrvJustCompleted ==
    {c \in 1..Len(srv_codes) :
        srv_codes[c].status = "pending" /\ srv_codes'[c].status = "completed"}

\* C30: in server.py a redemption code only ever moves from pending to
\* completed; a verify_redemption of a completed code fails and changes no
\* balance, no code and no audit row; a verify by a merchant other than the
\* code's own fails, changes no balance and leaves the code as it was; and
\* audit rows are written only for the one transaction the step completed.
C30_CodeCompletedAtMostOnce ==
    [][/\ Len(srv_codes') >= Len(srv_codes)
       /\ \A c \in 1..Len(srv_codes) :
             \/ srv_codes'[c].status = srv_codes[c].status
             \/ c \in SrvJustCompleted
       /\ \A m \in SrvWideMerchants, c \in 1..Len(srv_codes) :
             (srv_ret'.op = "verify_redemption" /\ SRV_verify_redemption(m, c))
             => /\ (srv_codes[c].status = "completed")
                      => /\ ~srv_ret'.ok
                         /\ UNCHANGED <<srv_vouchers, srv_codes, srv_csv>>
                /\ (srv_codes[c].merchant_id # m)
                      => /\ ~srv_ret'.ok
                         /\ UNCHANGED <<srv_vouchers, srv_codes, srv_csv>>
       /\ (srv_csv' # srv_csv)
             => /\ Cardinality(SrvJustCompleted) = 1
                /\ Len(srv_csv') > Len(srv_csv)
                /\ SubSeq(srv_csv', 1, Len(srv_csv)) = srv_csv
                /\ \A i \in Len(srv_csv) + 1 .. Len(srv_csv') :
                      srv_csv'[i].Transaction_ID \in SrvJustCompleted]_vars

\* Every code has been completed, with audit rows written, one of them
\* created for the second merchant, and a verify_redemption made after that
\* has been refused.
C30_Witness ==
    /\ Len(srv_codes) = MaxSrvCodes
    /\ \A c \in 1..Len(srv_codes) : srv_codes[c].status = "completed"
    /\ \E c \in 1..Len(srv_codes) : srv_codes[c].merchant_id = "M2"
    /\ srv_csv # <<>>
    /\ srv_ret = SrvReply("verify_redemption", FALSE)

=============================================================================
